---- MODULE Spec2Model ----
(***************************************************************************)
(* Model of warlock_manager's service control plane: the RCON client       *)
(* (services/rcon_service.py) on top of BaseService                        *)
(* (services/base_service.py).                                             *)
(*                                                                         *)
(* Bytes are integers 0..255, byte strings are sequences of bytes, Python  *)
(* str values are sequences of Unicode code points.  One RconService       *)
(* instance is modelled; the server is the environment: it chooses the     *)
(* outcome of connect and the bytes it delivers after each packet sent.    *)
(***************************************************************************)
EXTENDS Integers, Sequences, FiniteSets, TLC

(***************************************************************************)
(* Bounds of the model.                                                    *)
(***************************************************************************)
\* sockets one instance may create in a run
MaxSockets == 2
\* request ids one instance may allocate in a run
MaxAlloc == 3
\* largest number of bytes one socket recv() delivers
MaxChunk == 3
\* bytes that may wait unread on one connection
MaxPending == 30
\* services of the application
NumServices == 2
MaxWrites == 3
\* iterations of the drain loop that take longer than the sleep, and by how
\* many seconds
MaxSlow == 2
SlowTick == 360

(***************************************************************************)
(* Program constants.                                                      *)
(***************************************************************************)
PACKET_TYPE_AUTH == 3
PACKET_TYPE_AUTH_RESPONSE == 2
PACKET_TYPE_EXEC == 2
PACKET_TYPE_RESPONSE == 0
AUTH_FAILURE_ID == -1
\* 0x7FFFFFFF, the modulus of _next_id
MAX_ID == 2147483647
\* U+FFFD, what decode(errors="replace") puts for undecodable bytes
REPLACEMENT == 65533

\* BaseApp._delayed_action
DEADLINE_MINUTES == 55
SECONDS_PER_MINUTE == 60
SLEEP_SECONDS == 60
HARD_STOP_MINUTES == 5
WARNING_INTERVAL == 5

STOPPED == "stopped"
RUNNING == "running"
ERROR == "error"
ServiceStatus == {STOPPED, RUNNING, ERROR}

\* The state names of the specification's lifecycle table that
\* ServiceStatus does not have.
Starting == "starting"
Stopping == "stopping"

Min(a, b) == IF a <= b THEN a ELSE b

(***************************************************************************)
(* struct.pack("<i", x) / struct.unpack("<i", b): 32-bit two's complement, *)
(* little-endian.  Written so that no intermediate value leaves the        *)
(* signed 32-bit range.                                                    *)
(***************************************************************************)
Low31(x) == IF x >= 0 THEN x ELSE (x + 2147483647) + 1

Pack32(x) ==
  LET u == Low31(x)
  IN  << u % 256,
         (u \div 256) % 256,
         (u \div 65536) % 256,
         (u \div 16777216) + (IF x < 0 THEN 128 ELSE 0) >>

Unpack32(b) ==
  LET lo == b[1] + 256 * b[2] + 65536 * b[3] + 16777216 * (b[4] % 128)
  IN  IF b[4] >= 128 THEN (lo - 2147483647) - 1 ELSE lo

(***************************************************************************)
(* str.encode("utf-8") on a sequence of code points (surrogates excluded:  *)
(* the body is text).                                                      *)
(***************************************************************************)
Utf8Char(c) ==
  IF c < 128 THEN << c >>
  ELSE IF c < 2048 THEN << 192 + (c \div 64), 128 + (c % 64) >>
  ELSE IF c < 65536
       THEN << 224 + (c \div 4096), 128 + ((c \div 64) % 64), 128 + (c % 64) >>
  ELSE << 240 + (c \div 262144), 128 + ((c \div 4096) % 64),
          128 + ((c \div 64) % 64), 128 + (c % 64) >>

RECURSIVE Utf8Encode(_)
Utf8Encode(s) ==
  IF s = << >> THEN << >> ELSE Utf8Char(Head(s)) \o Utf8Encode(Tail(s))

(***************************************************************************)
(* bytes.decode("utf-8", errors="replace"): every maximal ill-formed       *)
(* subsequence becomes one U+FFFD.                                         *)
(***************************************************************************)
IsCont(b) == b >= 128 /\ b <= 191

\* the range allowed for the byte that follows lead byte c
SecondLo(c) == IF c = 224 THEN 160 ELSE IF c = 240 THEN 144 ELSE 128
SecondHi(c) == IF c = 237 THEN 159 ELSE IF c = 244 THEN 143 ELSE 191

RECURSIVE Utf8DecodeFrom(_, _)
Utf8DecodeFrom(b, i) ==
  IF i > Len(b) THEN << >>
  ELSE
    LET c == b[i]
        second == i + 1 <= Len(b) /\ b[i + 1] >= SecondLo(c)
                                  /\ b[i + 1] <= SecondHi(c)
        third == i + 2 <= Len(b) /\ IsCont(b[i + 2])
        fourth == i + 3 <= Len(b) /\ IsCont(b[i + 3])
        \* << bytes consumed, code point produced >>
        step ==
          IF c < 128 THEN << 1, c >>
          ELSE IF c >= 194 /\ c <= 223 THEN
            IF second THEN << 2, (c - 192) * 64 + (b[i + 1] - 128) >>
            ELSE << 1, REPLACEMENT >>
          ELSE IF c >= 224 /\ c <= 239 THEN
            IF ~second THEN << 1, REPLACEMENT >>
            ELSE IF ~third THEN << 2, REPLACEMENT >>
            ELSE << 3, (c - 224) * 4096 + (b[i + 1] - 128) * 64
                       + (b[i + 2] - 128) >>
          ELSE IF c >= 240 /\ c <= 244 THEN
            IF ~second THEN << 1, REPLACEMENT >>
            ELSE IF ~third THEN << 2, REPLACEMENT >>
            ELSE IF ~fourth THEN << 3, REPLACEMENT >>
            ELSE << 4, (c - 240) * 262144 + (b[i + 1] - 128) * 4096
                       + (b[i + 2] - 128) * 64 + (b[i + 3] - 128) >>
          ELSE << 1, REPLACEMENT >>
        Rest(st) == << st[2] >> \o Utf8DecodeFrom(b, i + st[1])
    IN  Rest(step)

Utf8Decode(b) == Utf8DecodeFrom(b, 1)

(***************************************************************************)
(* The frame _send_packet writes: size + id + type + body + two NULs.      *)
(***************************************************************************)
Payload(request_id, packet_type, body) ==
  Pack32(request_id) \o Pack32(packet_type) \o Utf8Encode(body) \o << 0, 0 >>

\* (Faulty variant: the length field counts its own four bytes too.)
EncodeLengthCountsItself(request_id, packet_type, body) ==
  LET Frame(payload) == Pack32(Len(payload) + 4) \o payload
  IN  Frame(Payload(request_id, packet_type, body))
Encode(request_id, packet_type, body) ==
  LET Frame(payload) == Pack32(Len(payload)) \o payload
  IN  Frame(Payload(request_id, packet_type, body))

(***************************************************************************)
(* State of one RconService instance and of its connection.                *)
(*   status      self._status                                              *)
(*   socket      self._socket: 0 is None, k > 0 the k-th socket created    *)
(*   request_id  self._request_id                                          *)
(*   opened      number of socket objects the instance has created         *)
(*   closed      the sockets on which the instance has called close()      *)
(*   rx          bytes the server has delivered on the current socket      *)
(*               that the instance has not read yet                        *)
(*   peer        "closed" once the server has closed its end of the        *)
(*               current socket (recv then returns b""), else "open"       *)
(*               (recv on an empty stream then times out)                  *)
(*   nAlloc      number of request ids allocated so far (bounds the run)   *)
(*   last        the last call made on the instance: its name, the status  *)
(*               it was made in, the exception it raised, its return       *)
(*               value and the socket events it performed, in order        *)
(***************************************************************************)
VARIABLES status, socket, request_id, opened, closed, rx, peer, nAlloc, last

rconVars ==
  << status, socket, request_id, opened, closed, rx, peer, nAlloc, last >>

(***************************************************************************)
(* State of one run of BaseApp._delayed_action and of the services of the  *)
(* application.                                                            *)
(*   pc                where the run is: "idle" before the call, "loop"    *)
(*                     at the top of the while loop, "sleep" in            *)
(*                     time.sleep, "update" and "restore" at the two steps *)
(*                     after the loop, and "invalid", "denied",            *)
(*                     "returned" or "raised" once it is over              *)
(*   action, msg       the argument, and the message template              *)
(*   elapsed           round(time.time()) - start, as of the last reading  *)
(*   ticks             iterations of the loop begun so far                 *)
(*   minutes_left      as computed in the last iteration                   *)
(*   svc               the state of each service of the snapshot           *)
(*   services_running  the local list of that name                         *)
(*   events            the calls made on the services and on the update    *)
(*                     collaborator by the step just taken, in order       *)
(*   calls             how many update() and start() calls there have been *)
(*                     during the run                                      *)
(*   stuck             the services whose stop() returns without the       *)
(*                     service leaving Running                             *)
(***************************************************************************)
VARIABLES pc, action, msg, elapsed, ticks, minutes_left, svc,
          services_running, events, calls, stuck

drainVars ==
  << pc, action, msg, elapsed, ticks, minutes_left, svc, services_running,
     events, calls, stuck >>

(***************************************************************************)
(* One call of each of the remaining operations, as a record whose field   *)
(* pc is "idle" before the call.                                           *)
(*   retry   a best-effort command execution (execute_with_retry)          *)
(*   api     a SocketService instance, its socket path and its calls       *)
(*   reader  RconService._recv_packet reading one frame, recv by recv      *)
(***************************************************************************)
VARIABLES retry, api, reader

otherVars == << retry, api, reader >>

vars == << rconVars, drainVars, otherVars >>

Idle == [pc |-> "idle"]

OtherIdle == retry = Idle /\ api = Idle /\ reader = Idle

\* the services of the application, in the order of get_services()
Services == 1..NumServices

NoCalls == [update |-> 0, start |-> [i \in Services |-> 0]]

\* get_player_count() returning None
None == -1

\* no delayed action has been called
DrainIdle ==
  /\ pc = "idle"
  /\ action = ""
  /\ msg = << >>
  /\ elapsed = 0
  /\ ticks = 0
  /\ minutes_left = DEADLINE_MINUTES
  /\ services_running = << >>
  /\ events = << >>
  /\ calls = NoCalls


NoExc == "none"
OSError == "OSError"
StructError == "struct.error"
NotConnected == "RconError: Not connected. Call start() first."
AuthFailed == "RconError: RCON authentication failed: bad password."
ConnClosed == "RconError: Connection closed by server."
IdMismatch == "RconError: Response ID mismatch"
RconError == {NotConnected, AuthFailed, ConnClosed, IdMismatch}

\* self.password and the commands a caller passes to execute()
Password == << 112 >>
Commands == {<< >>, << 97 >>}

\* The instance as one value, threaded through the methods below.
Cur ==
  [status |-> status, socket |-> socket, request_id |-> request_id,
   opened |-> opened, closed |-> closed, rx |-> rx, peer |-> peer,
   nAlloc |-> nAlloc, exc |-> NoExc, ret |-> << >>, log |-> << >>,
   writes |-> << >>]

Log(s, e) == [s EXCEPT !.log = Append(@, e)]
Raise(s, e) == [s EXCEPT !.exc = e]

\* self._status = v; writes keeps the values a call assigns, in order
SetStatus(s, v) == [s EXCEPT !.status = v, !.writes = Append(@, v)]

\* BaseService.is_running
IsRunningOf(s) == s.status = RUNNING

\* RconService._next_id: the value the counter takes.
\* (Faulty variant: (id + 1) & 0x7FFFFFFF, which wraps to 0.)
NextIdWrapsToZero(id) == IF id >= MAX_ID THEN 0 ELSE id + 1
NextId(id) == (id % MAX_ID) + 1

AllocId(s) ==
  [s EXCEPT !.request_id = NextId(s.request_id), !.nAlloc = @ + 1]

\* RconService._close_socket.
\* (Faulty variant: closes the socket but keeps the reference to it.)
CloseSocketKeepsReference(s) ==
  IF s.socket # 0
  THEN Log([s EXCEPT !.closed = @ \cup {s.socket}], << "close", s.socket >>)
  ELSE s
CloseSocket(s) ==
  IF s.socket # 0
  THEN Log([s EXCEPT !.closed = @ \cup {s.socket}, !.socket = 0,
                     !.rx = << >>, !.peer = "open"],
           << "close", s.socket >>)
  ELSE s

(***************************************************************************)
(* RconService._send_packet: sendall of the encoded frame.  sendOk is the  *)
(* outcome of sendall; reply is what the server then delivers: bytes, and  *)
(* whether it closes its end after them.                                   *)
(***************************************************************************)
SendPacket(s, rid, packet_type, body, sendOk, reply) ==
  IF ~sendOk THEN Raise(s, OSError)
  ELSE Log([s EXCEPT !.rx = @ \o reply.bytes,
                     !.peer = IF reply.close THEN "closed" ELSE @],
           << "send", s.socket, Encode(rid, packet_type, body) >>)

(***************************************************************************)
(* RconService._recv_exactly: the loop over socket.recv; each recv         *)
(* delivers at most chunk bytes, at most what is still wanted and at most  *)
(* what is there.  With nothing there, recv returns b"" if the server has  *)
(* closed and times out otherwise.                                         *)
(***************************************************************************)
RECURSIVE RecvLoop(_, _, _, _)
RecvLoop(buf, rest, length, chunk) ==
  IF Len(buf) >= length THEN [ok |-> TRUE, buf |-> buf, rest |-> rest]
  ELSE IF rest = << >> THEN [ok |-> FALSE, buf |-> buf, rest |-> rest]
  ELSE LET Recv(k) == RecvLoop(buf \o SubSeq(rest, 1, k),
                                SubSeq(rest, k + 1, Len(rest)), length, chunk)
       IN  Recv(Min(Min(chunk, length - Len(buf)), Len(rest)))

RecvExactly(s, length, chunk) ==
  LET Done(r) ==
        [st |-> IF r.ok THEN [s EXCEPT !.rx = r.rest]
                ELSE Raise([s EXCEPT !.rx = r.rest],
                           IF s.peer = "closed" THEN ConnClosed ELSE OSError),
         buf |-> r.buf]
  IN  Done(RecvLoop(<< >>, s.rx, length, chunk))

(***************************************************************************)
(* RconService._recv_packet.  pkt is << request_id, packet_type, body >>.  *)
(***************************************************************************)
NoPacket == << 0, 0, << >> >>

\* (Faulty variant: strips one terminator byte instead of two.)
DecodeDataStripsOneByte(data) ==
  << Unpack32(SubSeq(data, 1, 4)), Unpack32(SubSeq(data, 5, 8)),
     Utf8Decode(SubSeq(data, 9, Len(data) - 1)) >>
DecodeData(data) ==
  << Unpack32(SubSeq(data, 1, 4)), Unpack32(SubSeq(data, 5, 8)),
     Utf8Decode(SubSeq(data, 9, Len(data) - 2)) >>

RecvPacket(s, chunk) ==
  LET Packet(st, pkt) ==
        [st |-> Log(st, << "recv", s.socket, pkt[1] >>), pkt |-> pkt]
      Data(d) ==
        IF d.st.exc # NoExc THEN [st |-> d.st, pkt |-> NoPacket]
        ELSE IF Len(d.buf) < 8
             THEN [st |-> Raise(d.st, StructError), pkt |-> NoPacket]
        ELSE Packet(d.st, DecodeData(d.buf))
      Header(h) ==
        IF h.st.exc # NoExc THEN [st |-> h.st, pkt |-> NoPacket]
        ELSE Data(RecvExactly(h.st, Unpack32(h.buf), chunk))
  IN  Header(RecvExactly(s, 4, chunk))

(***************************************************************************)
(* What the server may deliver after a packet with request id rid: frames, *)
(* possibly followed by a malformed one, after which it keeps the          *)
(* connection open or closes it.  At most MaxPending bytes wait unread on  *)
(* a connection.                                                           *)
(***************************************************************************)
RespIds(rid) == {AUTH_FAILURE_ID, rid, NextId(rid)}

ServerPackets(rid) ==
  {<< id, PACKET_TYPE_AUTH_RESPONSE, << >> >> : id \in RespIds(rid)}
    \cup {<< rid, PACKET_TYPE_RESPONSE, << 97 >> >>}

\* a frame whose length field announces fewer than the 8 bytes of id and type
ShortFrame == Pack32(4) \o Pack32(1)
\* a frame cut off inside its length field
CutFrame == << 10, 0 >>

ServerFrames(rid) == {Encode(p[1], p[2], p[3]) : p \in ServerPackets(rid)}

\* every concatenation of frames of F that fits in budget bytes
RECURSIVE FrameSeqs(_, _)
FrameSeqs(F, budget) ==
  {<< >>} \cup UNION {{f \o r : r \in FrameSeqs(F, budget - Len(f))} :
                        f \in {g \in F : Len(g) <= budget}}

NoReply == [bytes |-> << >>, close |-> FALSE]

\* well-formed frames, then possibly a malformed one, then possibly the close
ServerReplies(rid, pending) ==
  {r \in {[bytes |-> b \o t, close |-> c] :
            b \in FrameSeqs(ServerFrames(rid), MaxPending - pending),
            t \in {<< >>, ShortFrame, CutFrame},
            c \in BOOLEAN} :
     pending + Len(r.bytes) <= MaxPending}

\* The environment's part in start(): socket.socket() fails, or connect()
\* fails, or the server answers the AUTH packet.
StartInputs(rid) ==
  {[create |-> FALSE, conn |-> FALSE, reply |-> NoReply, chunk |-> 1],
   [create |-> TRUE, conn |-> FALSE, reply |-> NoReply, chunk |-> 1]}
    \cup {[create |-> TRUE, conn |-> TRUE, reply |-> r, chunk |-> MaxChunk] :
            r \in ServerReplies(rid, 0)}

\* The caller's and the environment's part in execute(): the command, and,
\* when a packet goes out, whether sendall succeeds (it can fail only on a
\* connection the server has closed) and what the server answers.
ExecuteInputs(s) ==
  IF s.status # RUNNING \/ s.socket = 0
  THEN {[command |-> cmd, sendOk |-> TRUE, reply |-> NoReply, chunk |-> 1] :
          cmd \in Commands}
  ELSE {[command |-> cmd, sendOk |-> TRUE, reply |-> r, chunk |-> MaxChunk] :
          cmd \in Commands,
          r \in ServerReplies(NextId(s.request_id), Len(s.rx))}
         \cup (IF s.peer = "closed"
               THEN {[command |-> cmd, sendOk |-> FALSE, reply |-> NoReply,
                      chunk |-> 1] : cmd \in Commands}
               ELSE {})

(***************************************************************************)
(* RconService._authenticate                                               *)
(***************************************************************************)
\* (Faulty variant: looks for the failure id in the first packet read.)
AuthenticateChecksFirstPacket(s, sendOk, reply, chunk) ==
  LET Second(r1, r2) ==
        IF r2.st.exc # NoExc THEN r2.st
        ELSE IF r1.pkt[1] = AUTH_FAILURE_ID THEN Raise(r2.st, AuthFailed)
        ELSE r2.st
      First(r1) ==
        IF r1.st.exc # NoExc THEN r1.st
        ELSE Second(r1, RecvPacket(r1.st, chunk))
      Sent(s2) == IF s2.exc # NoExc THEN s2 ELSE First(RecvPacket(s2, chunk))
      Send(s1) ==
        Sent(SendPacket(s1, s1.request_id, PACKET_TYPE_AUTH, Password,
                        sendOk, reply))
  IN  Send(AllocId(s))
\* (Faulty variant: one packet is read, and it decides.)
AuthenticateReadsOnePacket(s, sendOk, reply, chunk) ==
  LET First(r1) ==
        IF r1.st.exc # NoExc THEN r1.st
        ELSE IF r1.pkt[1] = AUTH_FAILURE_ID THEN Raise(r1.st, AuthFailed)
        ELSE r1.st
      Sent(s2) == IF s2.exc # NoExc THEN s2 ELSE First(RecvPacket(s2, chunk))
      Send(s1) ==
        Sent(SendPacket(s1, s1.request_id, PACKET_TYPE_AUTH, Password,
                        sendOk, reply))
  IN  Send(AllocId(s))
\* (Faulty variant: an id other than the one sent is a failure too.)
AuthenticateRequiresMatchingId(s, sendOk, reply, chunk) ==
  LET Second(rid, r2) ==
        IF r2.st.exc # NoExc THEN r2.st
        ELSE IF r2.pkt[1] # rid THEN Raise(r2.st, AuthFailed)
        ELSE r2.st
      First(rid, r1) ==
        IF r1.st.exc # NoExc THEN r1.st
        ELSE Second(rid, RecvPacket(r1.st, chunk))
      Sent(rid, s2) ==
        IF s2.exc # NoExc THEN s2 ELSE First(rid, RecvPacket(s2, chunk))
      Send(s1) ==
        Sent(s1.request_id,
             SendPacket(s1, s1.request_id, PACKET_TYPE_AUTH, Password,
                        sendOk, reply))
  IN  Send(AllocId(s))
Authenticate(s, sendOk, reply, chunk) ==
  LET Second(r2) ==
        IF r2.st.exc # NoExc THEN r2.st
        ELSE IF r2.pkt[1] = AUTH_FAILURE_ID THEN Raise(r2.st, AuthFailed)
        ELSE r2.st
      First(r1) ==
        IF r1.st.exc # NoExc THEN r1.st ELSE Second(RecvPacket(r1.st, chunk))
      Sent(s2) == IF s2.exc # NoExc THEN s2 ELSE First(RecvPacket(s2, chunk))
      Send(s1) ==
        Sent(SendPacket(s1, s1.request_id, PACKET_TYPE_AUTH, Password,
                        sendOk, reply))
  IN  Send(AllocId(s))

(***************************************************************************)
(* RconService.start.  create: socket.socket() returned a socket; conn:    *)
(* connect() succeeded.  The new socket replaces self._socket whatever     *)
(* that was.                                                               *)
(***************************************************************************)
\* (Faulty variant: the except branch does not close the socket.)
StartOpLeavesSocketOpen(s, create, conn, sendOk, reply, chunk) ==
  IF ~create THEN Raise(s, OSError)
  ELSE
    LET Outcome(s2) ==
          IF s2.exc = NoExc THEN SetStatus(s2, RUNNING)
          ELSE IF s2.exc = OSError \/ s2.exc \in RconError
               THEN SetStatus(s2, ERROR)
          ELSE s2
        Connect(k, s1) ==
          IF conn THEN Authenticate(Log(s1, << "connect", k >>),
                                    sendOk, reply, chunk)
          ELSE Raise(s1, OSError)
        Create(k) ==
          Connect(k, Log([s EXCEPT !.socket = k, !.opened = k,
                                   !.rx = << >>, !.peer = "open"],
                         << "open", k >>))
    IN  Outcome(Create(s.opened + 1))
\* (Faulty variant: the status is set to Running once connected, before
\* authentication.)
StartOpRunningBeforeAuthentication(s, create, conn, sendOk, reply, chunk) ==
  IF ~create THEN Raise(s, OSError)
  ELSE
    LET Outcome(s2) ==
          IF s2.exc = NoExc THEN s2
          ELSE IF s2.exc = OSError \/ s2.exc \in RconError
               THEN CloseSocket(SetStatus(s2, ERROR))
          ELSE s2
        Connect(k, s1) ==
          IF conn
          THEN Authenticate(SetStatus(Log(s1, << "connect", k >>), RUNNING),
                            sendOk, reply, chunk)
          ELSE Raise(s1, OSError)
        Create(k) ==
          Connect(k, Log([s EXCEPT !.socket = k, !.opened = k,
                                   !.rx = << >>, !.peer = "open"],
                         << "open", k >>))
    IN  Outcome(Create(s.opened + 1))
StartOp(s, create, conn, sendOk, reply, chunk) ==
  IF ~create THEN Raise(s, OSError)
  ELSE
    LET Outcome(s2) ==
          IF s2.exc = NoExc THEN SetStatus(s2, RUNNING)
          ELSE IF s2.exc = OSError \/ s2.exc \in RconError
               THEN CloseSocket(SetStatus(s2, ERROR))
          ELSE s2
        Connect(k, s1) ==
          IF conn THEN Authenticate(Log(s1, << "connect", k >>),
                                    sendOk, reply, chunk)
          ELSE Raise(s1, OSError)
        Create(k) ==
          Connect(k, Log([s EXCEPT !.socket = k, !.opened = k,
                                   !.rx = << >>, !.peer = "open"],
                         << "open", k >>))
    IN  Outcome(Create(s.opened + 1))

(***************************************************************************)
(* RconService.stop                                                        *)
(***************************************************************************)
\* (Faulty variants: the status is cleared instead of set to Stopped; the
\* request id counter is set back to 0.)
StopOpClearsStatus(s) == SetStatus(CloseSocket(s), "none")
StopOpResetsRequestId(s) ==
  [SetStatus(CloseSocket(s), STOPPED) EXCEPT !.request_id = 0]
StopOp(s) == SetStatus(CloseSocket(s), STOPPED)

(***************************************************************************)
(* RconService._read_response and RconService.execute                      *)
(***************************************************************************)
\* (Faulty variants: a frame with another id is skipped and the next one
\* read; a mismatch closes the connection; a failed read marks
\* the instance as being in error.)
ReadResponseClosesOnMismatch(s, rid, chunk) ==
  LET Check(r) ==
        IF r.st.exc # NoExc THEN r.st
        ELSE IF r.pkt[1] # rid THEN Raise(CloseSocket(r.st), IdMismatch)
        ELSE [r.st EXCEPT !.ret = << r.pkt[3] >>]
  IN  Check(RecvPacket(s, chunk))
ReadResponseSetsError(s, rid, chunk) ==
  LET Check(r) ==
        IF r.st.exc # NoExc THEN SetStatus(r.st, ERROR)
        ELSE IF r.pkt[1] # rid THEN Raise(r.st, IdMismatch)
        ELSE [r.st EXCEPT !.ret = << r.pkt[3] >>]
  IN  Check(RecvPacket(s, chunk))
ReadResponseSkipsStaleFrame(s, rid, chunk) ==
  LET Check(r) ==
        IF r.st.exc # NoExc THEN r.st
        ELSE IF r.pkt[1] # rid THEN Raise(r.st, IdMismatch)
        ELSE [r.st EXCEPT !.ret = << r.pkt[3] >>]
      Again(r) ==
        IF r.st.exc = NoExc /\ r.pkt[1] # rid
        THEN Check(RecvPacket(r.st, chunk))
        ELSE Check(r)
  IN  Again(RecvPacket(s, chunk))
ReadResponse(s, rid, chunk) ==
  LET Check(r) ==
        IF r.st.exc # NoExc THEN r.st
        ELSE IF r.pkt[1] # rid THEN Raise(r.st, IdMismatch)
        ELSE [r.st EXCEPT !.ret = << r.pkt[3] >>]
  IN  Check(RecvPacket(s, chunk))

\* (Faulty variant: the request id is allocated before the state is looked at.)
ExecuteOpAllocatesFirst(s, command, sendOk, reply, chunk) ==
  LET Sent(rid, s2) ==
        IF s2.exc # NoExc THEN s2 ELSE ReadResponse(s2, rid, chunk)
      Send(s1) ==
        IF ~IsRunningOf(s) \/ s.socket = 0 THEN Raise(s1, NotConnected)
        ELSE Sent(s1.request_id,
                  SendPacket(s1, s1.request_id, PACKET_TYPE_EXEC, command,
                             sendOk, reply))
  IN  Send(AllocId(s))
\* (Faulty variant: a call on an instance that is not connected tidies up
\* with stop() before it raises.)
ExecuteOpStopsWhenNotConnected(s, command, sendOk, reply, chunk) ==
  IF ~IsRunningOf(s) \/ s.socket = 0 THEN Raise(StopOp(s), NotConnected)
  ELSE
    LET Sent(rid, s2) ==
          IF s2.exc # NoExc THEN s2 ELSE ReadResponse(s2, rid, chunk)
        Send(s1) ==
          Sent(s1.request_id,
               SendPacket(s1, s1.request_id, PACKET_TYPE_EXEC, command,
                          sendOk, reply))
    IN  Send(AllocId(s))
ExecuteOp(s, command, sendOk, reply, chunk) ==
  IF ~IsRunningOf(s) \/ s.socket = 0 THEN Raise(s, NotConnected)
  ELSE
    LET Sent(rid, s2) ==
          IF s2.exc # NoExc THEN s2 ELSE ReadResponse(s2, rid, chunk)
        Send(s1) ==
          Sent(s1.request_id,
               SendPacket(s1, s1.request_id, PACKET_TYPE_EXEC, command,
                          sendOk, reply))
    IN  Send(AllocId(s))

(***************************************************************************)
(* BaseService.restart                                                     *)
(***************************************************************************)
RestartOp(s, create, conn, sendOk, reply, chunk) ==
  StartOp(StopOp(s), create, conn, sendOk, reply, chunk)

(***************************************************************************)
(* The calls a user of the instance can make.                              *)
(***************************************************************************)
Commit(op, s) ==
  /\ status' = s.status
  /\ socket' = s.socket
  /\ request_id' = s.request_id
  /\ opened' = s.opened
  /\ closed' = s.closed
  /\ rx' = s.rx
  /\ peer' = s.peer
  /\ nAlloc' = s.nAlloc
  /\ last' = [op |-> op, from |-> status, exc |-> s.exc, ret |-> s.ret,
              log |-> s.log, writes |-> s.writes]
  /\ UNCHANGED << drainVars, otherVars >>

Init ==
  /\ status = STOPPED
  /\ socket = 0
  /\ request_id \in {0, MAX_ID - 1}
  /\ opened = 0
  /\ closed = {}
  /\ rx = << >>
  /\ peer = "open"
  /\ nAlloc = 0
  /\ last = [op |-> "init", from |-> STOPPED, exc |-> NoExc, ret |-> << >>,
             log |-> << >>, writes |-> << >>]
  /\ DrainIdle
  /\ svc = [i \in Services |-> STOPPED]
  /\ stuck = {}
  /\ OtherIdle

Start ==
  /\ opened < MaxSockets
  /\ nAlloc < MaxAlloc
  /\ \E in \in StartInputs(NextId(request_id)) :
       Commit("start", StartOp(Cur, in.create, in.conn, TRUE, in.reply, in.chunk))

Stop == Commit("stop", StopOp(Cur))

Restart ==
  /\ opened < MaxSockets
  /\ nAlloc < MaxAlloc
  /\ \E in \in StartInputs(NextId(request_id)) :
       Commit("restart",
              RestartOp(Cur, in.create, in.conn, TRUE, in.reply, in.chunk))

Execute ==
  /\ (IsRunningOf(Cur) /\ socket # 0) => nAlloc < MaxAlloc
  /\ \E in \in ExecuteInputs(Cur) :
       Commit("execute",
              ExecuteOp(Cur, in.command, in.sendOk, in.reply, in.chunk))

IsRunning ==
  Commit("is_running", [Cur EXCEPT !.ret = << IsRunningOf(Cur) >>])

Next == Start \/ Stop \/ Restart \/ Execute \/ IsRunning

Spec == Init /\ [][Next]_vars

(***************************************************************************)
(* The codec on its own: a frame built by _send_packet is handed back to   *)
(* _recv_packet by a peer that echoes what it receives, for request ids,   *)
(* packet types and bodies drawn from the sets below and every chunking of *)
(* the stream up to MaxChunk bytes per recv.                               *)
(***************************************************************************)
\* longest body, in code points
MaxBody == 2

CodecIds == {1, 5, 255, 256, 65535, 65536, 16777216, MAX_ID - 1, MAX_ID}
CodecTypes == {PACKET_TYPE_RESPONSE, PACKET_TYPE_EXEC, PACKET_TYPE_AUTH}
\* NUL, "a", e-acute (2 bytes), the euro sign (3 bytes), an emoji (4 bytes)
CodecChars == {0, 97, 233, 8364, 128512}
\* "say hi"
SayHi == << 115, 97, 121, 32, 104, 105 >>
CodecBodies == UNION {[1..n -> CodecChars] : n \in 0..MaxBody} \cup {SayHi}

CodecInit ==
  /\ status = STOPPED
  /\ socket = 0
  /\ request_id = 0
  /\ opened = 0
  /\ closed = {}
  /\ rx = << >>
  /\ peer = "open"
  /\ nAlloc = 0
  /\ \E id \in CodecIds, ty \in CodecTypes, body \in CodecBodies :
       last = [op |-> "input", from |-> STOPPED, exc |-> NoExc,
               ret |-> << << id, ty, body >> >>, log |-> << >>,
               writes |-> << >>]
  /\ DrainIdle
  /\ svc = [i \in Services |-> STOPPED]
  /\ stuck = {}
  /\ OtherIdle

Echo ==
  /\ last.op = "input"
  /\ \E chunk \in 1..MaxChunk :
       LET Received(in, r) ==
             /\ rx' = r.st.rx
             /\ last' = [op |-> "echo", from |-> status, exc |-> r.st.exc,
                         ret |-> << in, r.pkt >>, log |-> r.st.log,
                         writes |-> r.st.writes]
             /\ UNCHANGED << status, socket, request_id, opened, closed,
                             peer, nAlloc >>
             /\ UNCHANGED << drainVars, otherVars >>
           Send(in) ==
             Received(in,
                      RecvPacket(
                        SendPacket([Cur EXCEPT !.socket = 1],
                                   in[1], in[2], in[3], TRUE,
                                   [bytes |-> Encode(in[1], in[2], in[3]),
                                    close |-> FALSE]),
                        chunk))
       IN  Send(last.ret[1])

CodecSpec == CodecInit /\ [][Echo]_vars

(***************************************************************************)
(* BaseApp._delayed_action, the drain scheduler.                           *)
(*                                                                         *)
(* The services of the application are instances of the class BaseApp is   *)
(* configured with; of that class the scheduler uses is_running(),         *)
(* get_player_count(), stop(), send_message() and start().  stop() leaves  *)
(* the service Stopped; start() leaves it Running, or leaves it in Error   *)
(* and raises; get_player_count() and send_message() raise nothing.        *)
(***************************************************************************)
Actions == {"stop", "restart", "update"}

PlayerCounts == {None, 0, 2}

\* What a poll of a service comes to: one of the counts above, or a transport
\* error (no connection, authentication refused, connection lost) in every
\* attempt of the best-effort execution behind get_player_count().
TransportError == -2
PollOutcomes == PlayerCounts \cup {TransportError}

TimeToken == "{time}"

\* 'Server will %s in {time} minutes. Please prepare to log off safely.'
DefaultMessage(a) ==
  << "Server will ", a, " in ", TimeToken,
     " minutes. Please prepare to log off safely." >>

\* a configured message that names the time twice
CustomMessage == << "Maintenance in ", TimeToken, " min (", TimeToken, ")" >>

\* what get_option_value('<action>_delayed') may return
OptionValues == {<< >>, CustomMessage}

\* msg.replace('{time}', str(minutes_left))
Replace(m, n) ==
  [k \in 1..Len(m) |-> IF m[k] = TimeToken THEN ToString(n) ELSE m[k]]

MinutesLeft(e) == DEADLINE_MINUTES - (e \div SECONDS_PER_MINUTE)

\* The scheduler's locals and the services as one value, threaded through
\* the loop body.
DrainCur ==
  [svc |-> svc, services_running |-> services_running,
   still_running |-> FALSE, events |-> << >>, calls |-> calls,
   stuck |-> stuck, raised |-> FALSE]

Event(d, e) == [d EXCEPT !.events = Append(@, e)]

InSeq(x, seq) == \E k \in 1..Len(seq) : seq[k] = x

SvcIsRunning(d, i) == d.svc[i] = RUNNING

SvcStop(d, i) ==
  Event([d EXCEPT !.svc[i] = IF i \in d.stuck THEN @ ELSE STOPPED],
        << "stop", i >>)

\* get_player_count() is best-effort: a transport error is recorded and the
\* call returns None
PlayerCount(poll) == IF poll = TransportError THEN None ELSE poll

SvcGetPlayerCount(d, i, poll) ==
  Event(IF poll = TransportError THEN Event(d, << "transport_error", i >>)
        ELSE d,
        << "get_player_count", i, PlayerCount(poll) >>)

SvcSendMessage(d, i, text) == Event(d, << "send_message", i, text >>)

\* ok: whether start() succeeds
SvcStart(d, i, ok) ==
  Event([d EXCEPT !.svc[i] = IF ok THEN RUNNING ELSE ERROR,
                  !.calls.start[i] = @ + 1,
                  !.raised = ~ok],
        << "start", i >>)

\* lines 324-344: what one iteration does with service i, whose poll comes
\* to poll if it is asked for its player count
\* (Faulty variants: a count of None is taken for players being there; the
\* hard stop comes below 5 minutes, not at 5; a service whose count is None
\* is left alone.)
HandleServiceNoneIsOccupied(d, i, poll, m, player_msg) ==
  LET Warn(d3) ==
        IF m % WARNING_INTERVAL = 0 /\ m > HARD_STOP_MINUTES
        THEN SvcSendMessage(d3, i, player_msg)
        ELSE d3
      Polled(d2) ==
        IF PlayerCount(poll) = 0 THEN SvcStop(d2, i)
        ELSE Warn(IF m <= HARD_STOP_MINUTES THEN SvcStop(d2, i) ELSE d2)
      Seen(d1) ==
        Polled(SvcGetPlayerCount(
                 IF InSeq(i, d1.services_running) THEN d1
                 ELSE [d1 EXCEPT !.services_running = Append(@, i)],
                 i, poll))
  IN  IF SvcIsRunning(d, i)
      THEN Seen(Event([d EXCEPT !.still_running = TRUE],
                      << "is_running", i, TRUE >>))
      ELSE Event(d, << "is_running", i, FALSE >>)
HandleServiceStopsBelowFive(d, i, poll, m, player_msg) ==
  LET Warn(d3) ==
        IF m % WARNING_INTERVAL = 0 /\ m > HARD_STOP_MINUTES
        THEN SvcSendMessage(d3, i, player_msg)
        ELSE d3
      Polled(d2) ==
        IF PlayerCount(poll) = 0 \/ PlayerCount(poll) = None
        THEN SvcStop(d2, i)
        ELSE Warn(IF m < HARD_STOP_MINUTES THEN SvcStop(d2, i) ELSE d2)
      Seen(d1) ==
        Polled(SvcGetPlayerCount(
                 IF InSeq(i, d1.services_running) THEN d1
                 ELSE [d1 EXCEPT !.services_running = Append(@, i)],
                 i, poll))
  IN  IF SvcIsRunning(d, i)
      THEN Seen(Event([d EXCEPT !.still_running = TRUE],
                      << "is_running", i, TRUE >>))
      ELSE Event(d, << "is_running", i, FALSE >>)
HandleServiceSkipsUnknownCount(d, i, poll, m, player_msg) ==
  LET Warn(d3) ==
        IF m % WARNING_INTERVAL = 0 /\ m > HARD_STOP_MINUTES
        THEN SvcSendMessage(d3, i, player_msg)
        ELSE d3
      Polled(d2) ==
        IF PlayerCount(poll) = None THEN d2
        ELSE IF PlayerCount(poll) = 0 THEN SvcStop(d2, i)
        ELSE Warn(IF m <= HARD_STOP_MINUTES THEN SvcStop(d2, i) ELSE d2)
      Seen(d1) ==
        Polled(SvcGetPlayerCount(
                 IF InSeq(i, d1.services_running) THEN d1
                 ELSE [d1 EXCEPT !.services_running = Append(@, i)],
                 i, poll))
  IN  IF SvcIsRunning(d, i)
      THEN Seen(Event([d EXCEPT !.still_running = TRUE],
                      << "is_running", i, TRUE >>))
      ELSE Event(d, << "is_running", i, FALSE >>)
\* (Faulty variant: the warning is also sent when the hard stop is made.)
HandleServiceWarnsAtHardStop(d, i, poll, m, player_msg) ==
  LET Warn(d3) ==
        IF m % WARNING_INTERVAL = 0 /\ m > 0
        THEN SvcSendMessage(d3, i, player_msg)
        ELSE d3
      Polled(d2) ==
        IF PlayerCount(poll) = 0 \/ PlayerCount(poll) = None
        THEN SvcStop(d2, i)
        ELSE Warn(IF m <= HARD_STOP_MINUTES THEN SvcStop(d2, i) ELSE d2)
      Seen(d1) ==
        Polled(SvcGetPlayerCount(
                 IF InSeq(i, d1.services_running) THEN d1
                 ELSE [d1 EXCEPT !.services_running = Append(@, i)],
                 i, poll))
  IN  IF SvcIsRunning(d, i)
      THEN Seen(Event([d EXCEPT !.still_running = TRUE],
                      << "is_running", i, TRUE >>))
      ELSE Event(d, << "is_running", i, FALSE >>)
HandleService(d, i, poll, m, player_msg) ==
  LET Warn(d3) ==
        IF m % WARNING_INTERVAL = 0 /\ m > HARD_STOP_MINUTES
        THEN SvcSendMessage(d3, i, player_msg)
        ELSE d3
      Polled(d2) ==
        IF PlayerCount(poll) = 0 \/ PlayerCount(poll) = None
        THEN SvcStop(d2, i)
        ELSE Warn(IF m <= HARD_STOP_MINUTES THEN SvcStop(d2, i) ELSE d2)
      Seen(d1) ==
        Polled(SvcGetPlayerCount(
                 IF InSeq(i, d1.services_running) THEN d1
                 ELSE [d1 EXCEPT !.services_running = Append(@, i)],
                 i, poll))
  IN  IF SvcIsRunning(d, i)
      THEN Seen(Event([d EXCEPT !.still_running = TRUE],
                      << "is_running", i, TRUE >>))
      ELSE Event(d, << "is_running", i, FALSE >>)

\* lines 323-344: the for loop over the snapshot, from service i on
\* (Faulty variant: the snapshot is gone through from its end.)
RECURSIVE ForServicesLastFirst(_, _, _, _, _)
ForServicesLastFirst(d, i, counts, m, player_msg) ==
  IF i > NumServices THEN d
  ELSE HandleService(ForServicesLastFirst(d, i + 1, counts, m, player_msg),
                     i, counts[i], m, player_msg)
RECURSIVE ForServices(_, _, _, _, _)
ForServices(d, i, counts, m, player_msg) ==
  IF i > NumServices THEN d
  ELSE ForServices(HandleService(d, i, counts[i], m, player_msg),
                   i + 1, counts, m, player_msg)

\* lines 317-351: one iteration of the while loop, up to the break
\* (Faulty variant: the template is sent as it is.)
TickOpSendsTemplate(d, counts, m, template) ==
  ForServices(d, 1, counts, m, template)
TickOp(d, counts, m, template) ==
  ForServices(d, 1, counts, m, Replace(template, m))

\* line 349
\* (Faulty variants: the loop also ends when the hard stop is near; the
\* loop goes on while minutes_left is 0.)
LoopEndsBeforeHardStop(d, m) ==
  ~d.still_running \/ m <= HARD_STOP_MINUTES + 1
LoopEndsAfterDeadline(d, m) == ~d.still_running \/ m < 0
LoopEnds(d, m) == ~d.still_running \/ m <= 0

\* lines 359-364: the restoration, from service i on; a start() that raises
\* ends it
\* (Faulty variant: the loop goes on after a start() has raised.)
RECURSIVE RestoreFromGoesOn(_, _, _)
RestoreFromGoesOn(d, i, oks) ==
  IF i > NumServices THEN d
  ELSE RestoreFromGoesOn(IF InSeq(i, d.services_running)
                         THEN [SvcStart(d, i, oks[i])
                                 EXCEPT !.raised = @ \/ d.raised]
                         ELSE d,
                         i + 1, oks)
RECURSIVE RestoreFrom(_, _, _)
RestoreFrom(d, i, oks) ==
  IF i > NumServices \/ d.raised THEN d
  ELSE RestoreFrom(IF InSeq(i, d.services_running)
                   THEN SvcStart(d, i, oks[i]) ELSE d,
                   i + 1, oks)

\* (Faulty variant: the restoration is made after every action.)
RestoreOpAfterAnyAction(d, a, oks) == RestoreFrom(d, 1, oks)
RestoreOp(d, a, oks) ==
  IF a = "restart" \/ a = "update" THEN RestoreFrom(d, 1, oks) ELSE d

(***************************************************************************)
(* The steps of one run of _delayed_action.                                *)
(***************************************************************************)
\* lines 298-314: the checks and the initialisation.  root: os.geteuid()
\* is 0; option: the configured message, empty when there is none.  Either
\* check, when it fails, prints one line on sys.stderr and returns.
\* (Faulty variants: the action is not checked; the run goes on after the
\* line about sudo is printed.)
InvalidActionText == "ERROR - Invalid action for delayed action: "

DeniedText(a) ==
  << "ERROR - Unable to ", a, " game service unless run with sudo" >>

DelayedActionRunsAnyAction ==
  /\ pc = "idle"
  /\ \E a \in Actions \cup {"status"}, root \in BOOLEAN,
        option \in OptionValues :
       /\ action' = a
       /\ pc' = IF ~root THEN "denied" ELSE "loop"
       /\ events' = IF ~root THEN << << "stderr", DeniedText(a) >> >>
                    ELSE << >>
       /\ msg' = IF ~root THEN << >>
                 ELSE IF option = << >> THEN DefaultMessage(a) ELSE option
  /\ elapsed' = 0
  /\ services_running' = << >>
  /\ UNCHANGED << ticks, minutes_left, svc, calls, stuck >>
  /\ UNCHANGED << rconVars, otherVars >>
DelayedActionWithoutReturn ==
  /\ pc = "idle"
  /\ \E a \in Actions \cup {"status"}, root \in BOOLEAN,
        option \in OptionValues :
       /\ action' = a
       /\ pc' = IF a \notin Actions THEN "invalid" ELSE "loop"
       /\ events' = IF a \notin Actions
                    THEN << << "stderr", << InvalidActionText, a >> >> >>
                    ELSE IF ~root THEN << << "stderr", DeniedText(a) >> >>
                    ELSE << >>
       /\ msg' = IF a \notin Actions THEN << >>
                 ELSE IF option = << >> THEN DefaultMessage(a) ELSE option
  /\ elapsed' = 0
  /\ services_running' = << >>
  /\ UNCHANGED << ticks, minutes_left, svc, calls, stuck >>
  /\ UNCHANGED << rconVars, otherVars >>
DelayedAction ==
  /\ pc = "idle"
  /\ \E a \in Actions \cup {"status"}, root \in BOOLEAN,
        option \in OptionValues :
       /\ action' = a
       /\ pc' = IF a \notin Actions THEN "invalid"
                ELSE IF ~root THEN "denied" ELSE "loop"
       /\ events' = IF a \notin Actions
                    THEN << << "stderr", << InvalidActionText, a >> >> >>
                    ELSE IF ~root THEN << << "stderr", DeniedText(a) >> >>
                    ELSE << >>
       /\ msg' = IF a \notin Actions \/ ~root THEN << >>
                 ELSE IF option = << >> THEN DefaultMessage(a) ELSE option
  /\ elapsed' = 0
  /\ services_running' = << >>
  /\ UNCHANGED << ticks, minutes_left, svc, calls, stuck >>
  /\ UNCHANGED << rconVars, otherVars >>

\* lines 317-351: one iteration, with what the polls of the services come
\* to in it
Tick ==
  /\ pc = "loop"
  /\ \E counts \in {c \in [Services -> PollOutcomes] :
                      \A i \in Services : svc[i] # RUNNING => c[i] = None} :
       LET Done(m, d) ==
             /\ minutes_left' = m
             /\ svc' = d.svc
             /\ services_running' = d.services_running
             /\ events' = d.events
             /\ calls' = d.calls
             /\ pc' = IF LoopEnds(d, m) THEN "update" ELSE "sleep"
           Body(m) == Done(m, TickOp(DrainCur, counts, m, msg))
       IN  Body(MinutesLeft(elapsed))
  /\ ticks' = ticks + 1
  /\ UNCHANGED << action, msg, elapsed, stuck >>
  /\ UNCHANGED << rconVars, otherVars >>

\* seconds by which the iterations so far have taken longer than the sleeps
Drift == elapsed - SLEEP_SECONDS * (ticks - 1)

\* line 353, and the next reading of the clock at line 318: the sleep lasts
\* 60 seconds, and the iteration before it took next to no time or SlowTick
\* seconds
Sleep ==
  /\ pc = "sleep"
  /\ \E slow \in {0} \cup (IF Drift < MaxSlow * SlowTick THEN {SlowTick}
                           ELSE {}) :
       elapsed' = elapsed + SLEEP_SECONDS + slow
  /\ pc' = "loop"
  /\ events' = << >>
  /\ UNCHANGED << action, msg, ticks, minutes_left, svc, services_running,
                  calls, stuck >>
  /\ UNCHANGED << rconVars, otherVars >>

\* lines 355-357
UpdateOp(d, a) ==
  IF a = "update"
  THEN Event([d EXCEPT !.calls.update = @ + 1], << "update" >>)
  ELSE d

Update ==
  /\ pc = "update"
  /\ LET Done(d) == events' = d.events /\ calls' = d.calls
     IN  Done(UpdateOp(DrainCur, action))
  /\ pc' = "restore"
  /\ UNCHANGED << action, msg, elapsed, ticks, minutes_left, svc,
                  services_running, stuck >>
  /\ UNCHANGED << rconVars, otherVars >>

\* lines 359-364, with the outcome of each start() that is made
Restore ==
  /\ pc = "restore"
  /\ \E oks \in [Services -> BOOLEAN] :
       LET Done(d) ==
             /\ svc' = d.svc
             /\ events' = d.events
             /\ calls' = d.calls
             /\ pc' = IF d.raised THEN "raised" ELSE "returned"
       IN  Done(RestoreOp(DrainCur, action, oks))
  /\ UNCHANGED << action, msg, elapsed, ticks, minutes_left,
                  services_running, stuck >>
  /\ UNCHANGED << rconVars, otherVars >>

\* no call has been made on the RconService instance
RconIdle ==
  /\ status = STOPPED
  /\ socket = 0
  /\ request_id = 0
  /\ opened = 0
  /\ closed = {}
  /\ rx = << >>
  /\ peer = "open"
  /\ nAlloc = 0
  /\ last = [op |-> "init", from |-> STOPPED, exc |-> NoExc, ret |-> << >>,
             log |-> << >>, writes |-> << >>]

DrainInit ==
  /\ RconIdle
  /\ DrainIdle
  /\ svc \in [Services -> {STOPPED, RUNNING}]
  /\ stuck = {}
  /\ OtherIdle

DrainNext == DelayedAction \/ Tick \/ Sleep \/ Update \/ Restore

DrainSpec == DrainInit /\ [][DrainNext]_vars

\* The same run with services, all Running at first, whose stop() may have
\* no effect: a service in stuck is still Running after every stop().  The
\* first service is stuck, or all of them are.
StuckInit ==
  /\ RconIdle
  /\ DrainIdle
  /\ svc = [i \in Services |-> RUNNING]
  /\ stuck \in {{1}, Services}
  /\ OtherIdle

\* The positions of a run that has begun and is not over, and the run
\* leaving the position it is at.  The run is one thread: every call it
\* makes returns and every sleep ends, so it does not stay for ever at a
\* position it can leave.
Running == {"loop", "sleep", "update", "restore"}

Proceed ==
  /\ pc \in Running
  /\ pc' \in {"loop", "sleep", "update", "restore", "returned", "raised"}

StuckSpec == StuckInit /\ [][DrainNext]_vars /\ WF_pc(Proceed)

\* The same run with another actor (an operator, the init system) that
\* starts services while the scheduler sleeps.  The first service is
\* Running when the run begins and the others, LateServices, are down; one
\* of these that the drain has not yet seen Running may be Running when a
\* sleep ends.  The scheduler itself is as above.
LateServices == Services \ {1}

ActorInit ==
  /\ RconIdle
  /\ DrainIdle
  /\ svc = [i \in Services |-> IF i \in LateServices THEN STOPPED
                               ELSE RUNNING]
  /\ stuck = {}
  /\ OtherIdle

StartedByAnother ==
  /\ pc = "sleep"
  /\ \E i \in LateServices :
       /\ svc[i] # RUNNING
       /\ ~InSeq(i, services_running)
       /\ svc' = [svc EXCEPT ![i] = RUNNING]
  /\ UNCHANGED << pc, action, msg, elapsed, ticks, minutes_left,
                  services_running, events, calls, stuck >>
  /\ UNCHANGED << rconVars, otherVars >>

ActorNext == DrainNext \/ StartedByAnother

ActorSpec == ActorInit /\ [][ActorNext]_vars

(***************************************************************************)
(* BaseApp.stop_all and BaseApp.restart_all, the immediate operations.     *)
(* They use the variables of the drain: action is the operation called,    *)
(* events and calls hold what the call did, and pc is "returned" or        *)
(* "raised" after it.  The services are in any state at first, and the     *)
(* stop() of some of them may have no effect (stuck).                      *)
(***************************************************************************)
ImmediateActions == {"stop_all", "restart_all"}

\* BaseService.restart: stop(), then start()
SvcRestart(d, i, ok) == SvcStart(SvcStop(d, i), i, ok)

\* base_app.py lines 227-228 and 249-250: the body of the for loop
\* (Faulty variant: restart_all() restarts a service whatever its state.)
ImmediateOnEveryRestart(d, a, i, ok) ==
  IF SvcIsRunning(d, i) \/ a = "restart_all"
  THEN IF a = "stop_all"
       THEN SvcStop(Event(d, << "is_running", i, TRUE >>), i)
       ELSE SvcRestart(Event(d, << "is_running", i, SvcIsRunning(d, i) >>),
                       i, ok)
  ELSE Event(d, << "is_running", i, FALSE >>)
ImmediateOn(d, a, i, ok) ==
  IF SvcIsRunning(d, i)
  THEN IF a = "stop_all"
       THEN SvcStop(Event(d, << "is_running", i, TRUE >>), i)
       ELSE SvcRestart(Event(d, << "is_running", i, TRUE >>), i, ok)
  ELSE Event(d, << "is_running", i, FALSE >>)

\* lines 226-228 and 248-250: the for loop over get_services(), from
\* service i on; a restart() that raises ends it
RECURSIVE ImmediateFrom(_, _, _, _)
ImmediateFrom(d, a, i, oks) ==
  IF i > NumServices \/ d.raised THEN d
  ELSE ImmediateFrom(ImmediateOn(d, a, i, oks[i]), a, i + 1, oks)

\* one call of stop_all() or restart_all(), with the outcome of each
\* start() that is made
Immediate ==
  /\ pc \in {"idle", "returned", "raised"}
  /\ \E a \in ImmediateActions, oks \in [Services -> BOOLEAN] :
       LET Done(d) ==
             /\ action' = a
             /\ svc' = d.svc
             /\ events' = d.events
             /\ calls' = d.calls
             /\ pc' = IF d.raised THEN "raised" ELSE "returned"
       IN  Done(ImmediateFrom([DrainCur EXCEPT !.calls = NoCalls],
                              a, 1, oks))
  /\ UNCHANGED << msg, elapsed, ticks, minutes_left, services_running,
                  stuck >>
  /\ UNCHANGED << rconVars, otherVars >>

ImmediateInit ==
  /\ RconIdle
  /\ DrainIdle
  /\ svc \in [Services -> {STOPPED, RUNNING, ERROR}]
  /\ stuck \in SUBSET Services
  /\ OtherIdle

ImmediateSpec == ImmediateInit /\ [][Immediate]_vars

(***************************************************************************)
(* The best-effort command execution, execute_with_retry: the full         *)
(* sequence connect, authenticate, send is tried up to 6 times, each time  *)
(* on a new connection; an exception in an attempt is logged and the next  *)
(* attempt follows; after 6 failed attempts the call returns null.  It is  *)
(* not even tried unless the service instance is Starting, Running or      *)
(* Stopping and the transport is enabled and has its port and password.    *)
(*   retry.state      the state the service instance reports               *)
(*   retry.enabled, retry.port_known, retry.password_known                 *)
(*                    what the transport reports                           *)
(*   retry.attempts   attempts begun so far                                *)
(*   retry.conns      connections opened so far                            *)
(*   retry.log        the exceptions logged, in order                      *)
(*   retry.result     what the call returned                               *)
(*   retry.exc        the exception that left the call                     *)
(***************************************************************************)
MAX_ATTEMPTS == 6

Null == "null"
Response == "response"

LifecycleStates == {STOPPED, Starting, RUNNING, Stopping, ERROR}

\* how one attempt ends: with the response, or with an exception raised by
\* the connect, by the authentication or by the send
AttemptOutcomes == {Response, OSError, AuthFailed, ConnClosed}

\* the preconditions for attempting at all
\* (Faulty variant: the state of the instance is not looked at.)
CanAttemptInAnyState(r) ==
  r.enabled /\ r.port_known /\ r.password_known
CanAttempt(r) ==
  /\ r.state \in {Starting, RUNNING, Stopping}
  /\ r.enabled /\ r.port_known /\ r.password_known

\* the call, up to its first attempt
RetryCallOp(r) ==
  IF CanAttempt(r)
  THEN [r EXCEPT !.pc = "attempting"]
  ELSE [r EXCEPT !.pc = "returned", !.result = Null]

\* one attempt, on a connection of its own, and what follows from it
\* (Faulty variant: the exception of the last attempt is raised.)
AttemptOpRaisesAtTheEnd(r, outcome) ==
  LET Tried(a) ==
        IF outcome = Response
        THEN [a EXCEPT !.pc = "returned", !.result = Response]
        ELSE IF a.attempts >= MAX_ATTEMPTS
        THEN [a EXCEPT !.pc = "raised", !.exc = outcome]
        ELSE [a EXCEPT !.log = Append(@, outcome)]
  IN  Tried([r EXCEPT !.attempts = @ + 1, !.conns = @ + 1])
AttemptOp(r, outcome) ==
  LET Logged(a) ==
        IF a.attempts >= MAX_ATTEMPTS
        THEN [a EXCEPT !.pc = "returned", !.result = Null]
        ELSE a
      Tried(a) ==
        IF outcome = Response
        THEN [a EXCEPT !.pc = "returned", !.result = Response]
        ELSE Logged([a EXCEPT !.log = Append(@, outcome)])
  IN  Tried([r EXCEPT !.attempts = @ + 1, !.conns = @ + 1])

RetryInit ==
  /\ RconIdle
  /\ DrainIdle
  /\ svc = [i \in Services |-> STOPPED]
  /\ stuck = {}
  /\ api = Idle
  /\ reader = Idle
  /\ \E st \in LifecycleStates, en \in BOOLEAN, po \in BOOLEAN,
        pw \in BOOLEAN :
       retry = [pc |-> "idle", state |-> st, enabled |-> en,
                port_known |-> po, password_known |-> pw, attempts |-> 0,
                conns |-> 0, log |-> << >>, result |-> "", exc |-> NoExc]

ExecuteWithRetry ==
  /\ retry.pc = "idle"
  /\ retry' = RetryCallOp(retry)
  /\ UNCHANGED << rconVars, drainVars, api, reader >>

Attempt ==
  /\ retry.pc = "attempting"
  /\ \E outcome \in AttemptOutcomes : retry' = AttemptOp(retry, outcome)
  /\ UNCHANGED << rconVars, drainVars, api, reader >>

RetryNext == ExecuteWithRetry \/ Attempt

RetrySpec == RetryInit /\ [][RetryNext]_vars

(***************************************************************************)
(* SocketService: commands written to the service's socket path.           *)
(*   api.socket     self.socket, "" when it was cleared                    *)
(*   api.exists     whether the path exists in the file system             *)
(*   api.delivered  the writes the path has received, in order             *)
(*   api.last       the last thing that happened: the call made, with its  *)
(*                  argument, whether the path existed, its return value,  *)
(*                  its exception and its file operations in order, or a   *)
(*                  change of the path                                     *)
(***************************************************************************)
SocketPath == "/var/run/game.socket"

NEWLINE == 10

PyNone == "None"
PyTrue == "True"
PyFalse == "False"

NoApiCall(a, what) ==
  [op |-> what, cmd |-> << >>, existed |-> a.exists, ret |-> PyNone,
   exc |-> NoExc, log |-> << >>]

\* lines 35-42: self.socket and os.path.exists(self.socket)
IsApiEnabledValue(a) ==
  IF a.socket = "" THEN "" ELSE IF a.exists THEN PyTrue ELSE PyFalse

IsApiEnabledLog(a) == IF a.socket = "" THEN << >> ELSE << << "exists" >> >>

Truthy(v) == v = PyTrue

\* lines 20-33.  openOk: whether open(self.socket, 'w') succeeds on the
\* path that exists
\* (Faulty variant: the path is opened without asking whether it exists,
\* which creates it.)
ApiCmdOpWithoutCheck(a, cmd, openOk) ==
  IF ~openOk
  THEN [a EXCEPT !.last = [op |-> "_api_cmd", cmd |-> cmd,
                           existed |-> a.exists, ret |-> PyNone,
                           exc |-> OSError,
                           log |-> << << "open", "w" >> >>]]
  ELSE [a EXCEPT !.delivered = Append(@, Append(cmd, NEWLINE)),
                 !.exists = TRUE,
                 !.last = [op |-> "_api_cmd", cmd |-> cmd,
                           existed |-> a.exists, ret |-> PyTrue,
                           exc |-> NoExc,
                           log |-> << << "open", "w" >>,
                                      << "write", Append(cmd, NEWLINE) >>,
                                      << "close" >> >>]]
ApiCmdOp(a, cmd, openOk) ==
  IF ~Truthy(IsApiEnabledValue(a))
  THEN [a EXCEPT !.last = [op |-> "_api_cmd", cmd |-> cmd,
                           existed |-> a.exists, ret |-> PyNone,
                           exc |-> NoExc, log |-> IsApiEnabledLog(a)]]
  ELSE IF ~openOk
  THEN [a EXCEPT !.last = [op |-> "_api_cmd", cmd |-> cmd,
                           existed |-> a.exists, ret |-> PyNone,
                           exc |-> OSError,
                           log |-> IsApiEnabledLog(a)
                                     \o << << "open", "w" >> >>]]
  ELSE [a EXCEPT !.delivered = Append(@, Append(cmd, NEWLINE)),
                 !.last = [op |-> "_api_cmd", cmd |-> cmd,
                           existed |-> a.exists, ret |-> PyTrue,
                           exc |-> NoExc,
                           log |-> IsApiEnabledLog(a)
                                     \o << << "open", "w" >>,
                                           << "write", Append(cmd, NEWLINE) >>,
                                           << "close" >> >>]]

IsApiEnabledOp(a) ==
  [a EXCEPT !.last = [op |-> "is_api_enabled", cmd |-> << >>,
                      existed |-> a.exists, ret |-> IsApiEnabledValue(a),
                      exc |-> NoExc, log |-> IsApiEnabledLog(a)]]

SocketInit ==
  /\ RconIdle
  /\ DrainIdle
  /\ svc = [i \in Services |-> STOPPED]
  /\ stuck = {}
  /\ retry = Idle
  /\ reader = Idle
  /\ \E path \in {"", SocketPath}, there \in BOOLEAN :
       api = [pc |-> "ready", socket |-> path, exists |-> there,
              delivered |-> << >>,
              last |-> [op |-> "init", cmd |-> << >>, existed |-> there,
                        ret |-> PyNone, exc |-> NoExc, log |-> << >>]]

ApiCmd ==
  /\ api.pc = "ready"
  /\ Len(api.delivered) < MaxWrites
  /\ \E cmd \in Commands, openOk \in BOOLEAN :
       api' = ApiCmdOp(api, cmd, openOk)
  /\ UNCHANGED << rconVars, drainVars, retry, reader >>

IsApiEnabled ==
  /\ api.pc = "ready"
  /\ api' = IsApiEnabledOp(api)
  /\ UNCHANGED << rconVars, drainVars, retry, reader >>

\* the game server, or systemd, creates the path or removes it
PathChanges ==
  /\ api.pc = "ready"
  /\ api' = [api EXCEPT !.exists = ~@,
                         !.last = NoApiCall(api, "path changed")]
  /\ UNCHANGED << rconVars, drainVars, retry, reader >>

SocketNext == ApiCmd \/ IsApiEnabled \/ PathChanges

SocketSpec == SocketInit /\ [][SocketNext]_vars

(***************************************************************************)
(* RconService._recv_packet and _recv_exactly, one socket.recv at a time.  *)
(*   reader.given   the bytes the server sends before the read ends        *)
(*   reader.closed  whether the server closes the connection after them    *)
(*   reader.rest    the bytes of given not yet handed out by recv          *)
(*   reader.pc      "header" and "data" in the two calls of _recv_exactly, *)
(*                  "returned" and "raised" at the end                     *)
(*   reader.want    the length asked of _recv_exactly                      *)
(*   reader.buf     its local buf                                          *)
(*   reader.reads   the lengths of what its recv calls returned, in order  *)
(*   reader.header  what the first _recv_exactly returned                  *)
(*   reader.pkt, reader.exc   the packet returned, the exception raised    *)
(***************************************************************************)
\* "a" in a RESPONSE packet, followed by an empty AUTH_RESPONSE packet
TwoFrames ==
  Encode(1, PACKET_TYPE_RESPONSE, << 97 >>)
    \o Encode(2, PACKET_TYPE_AUTH_RESPONSE, << >>)

\* the streams a read may meet: the two frames cut anywhere, and frames
\* whose length field is too small, zero or negative
ReaderStreams ==
  {SubSeq(TwoFrames, 1, n) : n \in 0..Len(TwoFrames)}
    \cup {ShortFrame, Pack32(0), Pack32(-1) \o Pack32(1)}

\* lines 98-100, after the second _recv_exactly has returned
DataDone(r) ==
  IF Len(r.buf) < 8
  THEN [r EXCEPT !.pc = "raised", !.exc = StructError]
  ELSE [r EXCEPT !.pc = "returned", !.pkt = DecodeData(r.buf)]

\* lines 96-97, after the first _recv_exactly has returned: a length that
\* is not positive makes the second return at once
HeaderDone(r) ==
  LET Enter(d) == IF d.want <= 0 THEN DataDone(d) ELSE d
  IN  Enter([r EXCEPT !.pc = "data", !.header = r.buf,
                      !.want = Unpack32(r.buf), !.buf = << >>,
                      !.reads = << >>])

\* line 105, when the loop condition is tested
LoopTest(r) ==
  IF Len(r.buf) < r.want THEN r
  ELSE IF r.pc = "header" THEN HeaderDone(r) ELSE DataDone(r)

\* lines 106-109: one recv, which returns the next k bytes of the stream
\* (k = 0: the server has closed the connection)
\* (Faulty variant: buf = chunk.)
RecvChunkKeepsLastChunk(r, k) ==
  IF k = 0
  THEN [r EXCEPT !.pc = "raised", !.exc = ConnClosed,
                 !.reads = Append(@, 0)]
  ELSE LoopTest([r EXCEPT !.buf = SubSeq(r.rest, 1, k),
                          !.rest = SubSeq(@, k + 1, Len(@)),
                          !.reads = Append(@, k)])
RecvChunk(r, k) ==
  IF k = 0
  THEN [r EXCEPT !.pc = "raised", !.exc = ConnClosed,
                 !.reads = Append(@, 0)]
  ELSE LoopTest([r EXCEPT !.buf = @ \o SubSeq(r.rest, 1, k),
                          !.rest = SubSeq(@, k + 1, Len(@)),
                          !.reads = Append(@, k)])

\* recv when nothing arrives and the connection stays open: socket.timeout
RecvTimeout(r) == [r EXCEPT !.pc = "raised", !.exc = OSError]

ReaderInit ==
  /\ RconIdle
  /\ DrainIdle
  /\ svc = [i \in Services |-> STOPPED]
  /\ stuck = {}
  /\ retry = Idle
  /\ api = Idle
  /\ \E stream \in ReaderStreams, close \in BOOLEAN :
       reader = [pc |-> "idle", given |-> stream, closed |-> close,
                 rest |-> stream, want |-> 0, buf |-> << >>,
                 reads |-> << >>, header |-> << >>, pkt |-> NoPacket,
                 exc |-> NoExc]

\* line 94-95: _recv_packet calls _recv_exactly(4)
RecvPacketCall ==
  /\ reader.pc = "idle"
  /\ reader' = [reader EXCEPT !.pc = "header", !.want = 4]
  /\ UNCHANGED << rconVars, drainVars, retry, api >>

\* one socket.recv(length - len(buf)): it returns between 1 and that many
\* of the bytes that have arrived, b"" at the end of a closed stream, and
\* times out at the end of an open one
Recv ==
  /\ reader.pc \in {"header", "data"}
  /\ IF reader.rest # << >>
     THEN \E k \in 1..Min(reader.want - Len(reader.buf), Len(reader.rest)) :
            reader' = RecvChunk(reader, k)
     ELSE IF reader.closed THEN reader' = RecvChunk(reader, 0)
     ELSE reader' = RecvTimeout(reader)
  /\ UNCHANGED << rconVars, drainVars, retry, api >>

ReaderNext == RecvPacketCall \/ Recv

ReaderSpec == ReaderInit /\ [][ReaderNext]_vars

(***************************************************************************)
(* What a call did, read off its event log.                                *)
(***************************************************************************)
IsRecv(e) == e[1] = "recv"
IsSend(e) == e[1] = "send"

\* the request ids of the packets the call read, in order
RecvIds(log) ==
  LET r == SelectSeq(log, IsRecv) IN [i \in 1..Len(r) |-> r[i][3]]

\* the request ids of the packets the call sent, in order
SentIds(log) ==
  LET r == SelectSeq(log, IsSend)
  IN  [i \in 1..Len(r) |-> Unpack32(SubSeq(r[i][3], 5, 8))]

\* sockets the instance created, no longer refers to and never closed
\* (whether they are still open is up to the garbage collector)
Dropped == (1..opened) \ (closed \cup {socket})

(***************************************************************************)
(* C1.  If the second packet read during authentication carries request id *)
(* -1, start() raises the authentication error, whatever request id the    *)
(* AUTH packet carried, and the instance ends in state Error with the      *)
(* socket of that start() closed and self._socket None.                    *)
(***************************************************************************)
C1_AuthFailureDetected ==
  (/\ last.op \in {"start", "restart"}
   /\ Len(RecvIds(last.log)) >= 2
   /\ RecvIds(last.log)[2] = AUTH_FAILURE_ID)
    => /\ last.exc = AuthFailed
       /\ status = ERROR
       /\ socket = 0
       /\ opened \in closed

\* a rejected start() whose AUTH packet carried 0x7FFFFFFF, not 1
C1_Witness ==
  /\ last.op = "start"
  /\ SentIds(last.log) = << MAX_ID >>
  /\ RecvIds(last.log) = << MAX_ID, AUTH_FAILURE_ID >>
  /\ last.exc = AuthFailed
  /\ status = ERROR

(***************************************************************************)
(* C2.  When the frame execute() reads carries a request id other than the *)
(* one it just sent, the call raises the mismatch error and the channel    *)
(* stays open: the socket is neither closed nor dropped, the status stays  *)
(* Running, and a further execute() is not refused as "not connected".     *)
(***************************************************************************)
C2_MismatchLeavesChannelOpen ==
  (/\ last.op = "execute"
   /\ Len(RecvIds(last.log)) = 1
   /\ RecvIds(last.log) # SentIds(last.log))
    => /\ last.exc = IdMismatch
       /\ status = RUNNING
       /\ socket # 0
       /\ socket \notin closed
       /\ ~(\E e \in 1..Len(last.log) : last.log[e][1] = "close")
       /\ \A cmd \in Commands :
            ExecuteOp(Cur, cmd, TRUE, NoReply, MaxChunk).exc # NotConnected

C2_Witness ==
  /\ last.op = "execute"
  /\ Len(SentIds(last.log)) = 1
  /\ RecvIds(last.log) = << NextId(SentIds(last.log)[1]) >>
  /\ last.exc = IdMismatch

(***************************************************************************)
(* C3.  execute() on an instance that is not Running (never started,       *)
(* stopped, or in Error) raises "not connected" at once: nothing is sent   *)
(* or read, no request id is allocated, and the state is unchanged.        *)
(***************************************************************************)
C3_ExecuteWhenNotRunning ==
  [][(last'.op = "execute" /\ status # RUNNING)
       => /\ last'.exc = NotConnected
          /\ last'.log = << >>
          /\ request_id' = request_id
          /\ nAlloc' = nAlloc
          /\ status' = status
          /\ socket' = socket
          /\ opened' = opened
          /\ closed' = closed
          /\ rx' = rx]_vars

C3_Witness ==
  /\ last.op = "execute"
  /\ last.from = ERROR
  /\ last.exc = NotConnected
  /\ nAlloc > 0

(***************************************************************************)
(* C4.  Every request id allocated lies in 1..0x7FFFFFFF: the first is 1,  *)
(* each next one is the previous plus 1, the one after 0x7FFFFFFF is 1,    *)
(* and 0 is never produced; a call allocates at most one id, and the id    *)
(* it sends is the one it allocated.                                       *)
(***************************************************************************)
C4_RequestIds ==
  [][/\ request_id' # request_id => nAlloc' = nAlloc + 1
     /\ nAlloc' # nAlloc
          => /\ nAlloc' = nAlloc + 1
             /\ request_id' >= 1
             /\ request_id' <= MAX_ID
             /\ request_id' = (IF request_id = MAX_ID THEN 1 ELSE request_id + 1)
             /\ \A i \in 1..Len(SentIds(last'.log)) :
                  SentIds(last'.log)[i] = request_id']_vars

\* the counter has gone 0x7FFFFFFE, 0x7FFFFFFF, 1
C4_Witness ==
  /\ nAlloc = 2
  /\ request_id = 1
  /\ SentIds(last.log) = << 1 >>

(***************************************************************************)
(* C5.  Round trip: for the request ids of CodecIds (1 and 0x7FFFFFFF      *)
(* among them), every packet type and every body that does not end in a    *)
(* NUL, decoding the bytes the encoder produced yields the same request    *)
(* id, type and body, whatever the chunking, and consumes the whole frame, *)
(* the two terminating NULs included.                                      *)
(***************************************************************************)
EndsWithNul(body) == body # << >> /\ body[Len(body)] = 0

C5_RoundTrip ==
  (last.op = "echo" /\ ~EndsWithNul(last.ret[1][3]))
    => /\ last.exc = NoExc
       /\ last.ret[2] = last.ret[1]
       /\ rx = << >>

\* encode(5, EXEC, "say hi") and back
C5_Witness ==
  /\ last.op = "echo"
  /\ last.ret[1] = << 5, PACKET_TYPE_EXEC, SayHi >>
  /\ last.ret[2] = << 5, PACKET_TYPE_EXEC, SayHi >>
  /\ rx = << >>

(***************************************************************************)
(* C6.  If start() has created its socket and then fails because connect   *)
(* fails, the credential is rejected or the connection is closed or times  *)
(* out during authentication, then whatever the status was before, the     *)
(* error reaches the caller, the status becomes Error, the socket that     *)
(* start() opened is closed and self._socket is None.                      *)
(***************************************************************************)
C6_StartFailure ==
  (/\ last.op = "start"
   /\ last.log # << >>
   /\ last.exc \in {OSError, AuthFailed, ConnClosed})
    => /\ status = ERROR
       /\ socket = 0
       /\ opened \in closed
       /\ last.log[Len(last.log)] = << "close", opened >>

\* the server closes during the authentication of a start() made while Running
C6_Witness ==
  /\ last.op = "start"
  /\ last.from = RUNNING
  /\ last.exc = ConnClosed
  /\ status = ERROR
  /\ socket = 0

(***************************************************************************)
(* C7.  stop() in any state raises nothing and leaves the instance         *)
(* Stopped, with the socket it held closed and self._socket None; a        *)
(* second stop() changes nothing.                                          *)
(***************************************************************************)
StopChangesNothing ==
  LET s == StopOp(Cur)
  IN  /\ s.status = status
      /\ s.socket = socket
      /\ s.closed = closed
      /\ s.opened = opened
      /\ s.request_id = request_id
      /\ s.exc = NoExc
      /\ s.log = << >>

C7_StopIdempotent ==
  [][last'.op = "stop"
       => /\ last'.exc = NoExc
          /\ status' = STOPPED
          /\ socket' = 0
          /\ socket # 0 => socket \in closed'
          /\ request_id' = request_id
          /\ StopChangesNothing']_vars

\* stop() on a Running instance, and stop() on one never started
C7_Witness ==
  /\ last.op = "stop"
  /\ last.from = RUNNING
  /\ last.log = << << "close", 1 >> >>
  /\ status = STOPPED

(***************************************************************************)
(* C8.  restart() is stop() followed by start(): every close of the old    *)
(* connection comes before the new socket is opened; it ends in Running    *)
(* when start() succeeds and in Error, not Stopped, when start() fails.    *)
(***************************************************************************)
RestartOrdered(log) ==
  \A i, j \in 1..Len(log) :
    (log[i][1] = "open" /\ log[j][1] = "close" /\ log[j][2] # log[i][2])
      => j < i

C8_RestartIsStopThenStart ==
  last.op = "restart"
    => /\ RestartOrdered(last.log)
       /\ last.exc = NoExc => status = RUNNING
       /\ last.exc # NoExc => status = ERROR

(***************************************************************************)
(* C9.  The status changes only inside start(), stop() or restart():       *)
(* execute(), succeeding or failing, and is_running() leave it as it was.  *)
(***************************************************************************)
C9_StatusChangesOnlyInLifecycleCalls ==
  [][/\ status' # status => last'.op \in {"start", "stop", "restart"}
     /\ last'.op \in {"execute", "is_running"} => status' = status]_vars

\* the server closes the connection while execute() is reading
C9_Witness ==
  /\ last.op = "execute"
  /\ last.exc = ConnClosed
  /\ status = RUNNING

(***************************************************************************)
(* C10.  Whatever calls were made, every socket the instance has opened is *)
(* its current socket or has been closed by it, so it owns at most one     *)
(* open socket.                                                            *)
(***************************************************************************)
C10_AtMostOneOpenSocket == Dropped = {}


HasEvent(log, kind) == \E i \in 1..Len(log) : log[i][1] = kind

C12_StatusDomain ==
  /\ status \in {STOPPED, Starting, RUNNING, Stopping, ERROR}
  /\ \A i \in 1..Len(last.writes) :
       last.writes[i] \in {STOPPED, Starting, RUNNING, Stopping, ERROR}
  /\ last.op = "init" => (status = STOPPED /\ ~IsRunningOf(Cur))
  /\ last.op = "is_running" => last.ret = << status = RUNNING >>
  /\ opened = 0 => status = STOPPED

\* is_running() on an instance that was never started
C12_Witness ==
  /\ last.op = "is_running"
  /\ last.from = STOPPED
  /\ opened = 0
  /\ last.ret = << FALSE >>

(***************************************************************************)
(* C13.  When start() has read the two packets of authentication and the   *)
(* second one carries a request id other than -1, start() raises nothing   *)
(* and ends in Running, also when that id is not the one the AUTH packet   *)
(* carried.                                                                *)
(***************************************************************************)
C13_AnyOtherIdAccepted ==
  (/\ last.op \in {"start", "restart"}
   /\ Len(RecvIds(last.log)) >= 2
   /\ RecvIds(last.log)[2] # AUTH_FAILURE_ID)
    => /\ last.exc = NoExc
       /\ status = RUNNING
       /\ socket = opened
       /\ socket \notin closed

\* the AUTH packet carried 1, the AUTH_RESPONSE carries 2
C13_Witness ==
  /\ last.op = "start"
  /\ SentIds(last.log) = << 1 >>
  /\ RecvIds(last.log) = << 1, 2 >>
  /\ status = RUNNING

(***************************************************************************)
(* C14.  The frame the encoder writes for a body has a length field equal  *)
(* to 8 + byte_length(body) + 2, which is the number of bytes that follow  *)
(* the length field, and its last two bytes are NUL, whatever the body     *)
(* (also one that itself ends in a NUL).                                   *)
(***************************************************************************)
\* the number of bytes of one code point in UTF-8
ByteWidth(c) == IF c < 128 THEN 1 ELSE IF c < 2048 THEN 2
                ELSE IF c < 65536 THEN 3 ELSE 4

RECURSIVE ByteLength(_)
ByteLength(body) ==
  IF body = << >> THEN 0 ELSE ByteWidth(Head(body)) + ByteLength(Tail(body))

FrameWellFormed(frame, body) ==
  /\ Len(frame) >= 14
  /\ Unpack32(SubSeq(frame, 1, 4)) = 8 + ByteLength(body) + 2
  /\ Unpack32(SubSeq(frame, 1, 4)) = Len(frame) - 4
  /\ frame[Len(frame) - 1] = 0
  /\ frame[Len(frame)] = 0

C14_FrameLength ==
  last.op = "echo"
    => /\ Len(last.log) >= 1
       /\ last.log[1][1] = "send"
       /\ FrameWellFormed(last.log[1][3], last.ret[1][3])

\* a body of a 4-byte and a 3-byte character: length field 8 + 7 + 2
C14_Witness ==
  /\ last.op = "echo"
  /\ last.ret[1][3] = << 128512, 8364 >>
  /\ Len(last.log[1][3]) = 4 + 17


(***************************************************************************)
(* What an iteration of the drain loop did, read off its events.           *)
(***************************************************************************)
\* the state right after an iteration: events holds what it did
AfterTick == pc \in {"sleep", "update"} /\ ticks > 0

\* get_player_count() of service i returned c
PolledAs(ev, i, c) ==
  \E k \in 1..Len(ev) :
    ev[k][1] = "get_player_count" /\ ev[k][2] = i /\ ev[k][3] = c

Empty(ev, i) == PolledAs(ev, i, 0) \/ PolledAs(ev, i, None)
Occupied(ev, i) == \E c \in PlayerCounts \ {0, None} : PolledAs(ev, i, c)

StoppedIn(ev, i) ==
  \E k \in 1..Len(ev) : ev[k][1] = "stop" /\ ev[k][2] = i

IsMessageTo(i, e) == e[1] = "send_message" /\ e[2] = i

\* the texts sent to service i, in order
MessagesTo(ev, i) ==
  LET Texts(sel) == [k \in 1..Len(sel) |-> sel[k][3]]
  IN  Texts(SelectSeq(ev, LAMBDA e : IsMessageTo(i, e)))

(***************************************************************************)
(* C15.  In every iteration, whatever minutes_left is, a service found     *)
(* Running whose player count is 0 or None is stopped in that iteration    *)
(* and gets no message, while, as long as minutes_left > 5, a service that *)
(* reports players is not stopped and is still Running after it.           *)
(***************************************************************************)
C15_EarlyExit ==
  AfterTick
    => \A i \in Services :
         /\ Empty(events, i)
              => /\ StoppedIn(events, i)
                 /\ svc[i] # RUNNING
                 /\ MessagesTo(events, i) = << >>
         /\ (Occupied(events, i) /\ minutes_left > HARD_STOP_MINUTES)
              => /\ ~StoppedIn(events, i)
                 /\ svc[i] = RUNNING

\* first iteration, 55 minutes left: one service is empty, the other is not
C15_Witness ==
  /\ AfterTick
  /\ ticks = 1
  /\ minutes_left = 55
  /\ PolledAs(events, 1, None)
  /\ StoppedIn(events, 1)
  /\ Occupied(events, 2)
  /\ svc = << STOPPED, RUNNING >>

(***************************************************************************)
(* C16.  A service that reports players is stopped in an iteration exactly *)
(* when minutes_left <= 5 in it; the iteration before had minutes_left     *)
(* > 5, so this is the first one at or below 5, and when no iteration has  *)
(* taken longer than the sleep it is the one with minutes_left = 5.        *)
(***************************************************************************)
C16_HardStop ==
  [][pc = "loop"
       => \A i \in Services :
            Occupied(events', i)
              => /\ StoppedIn(events', i) <=> minutes_left' <= HARD_STOP_MINUTES
                 /\ StoppedIn(events', i)
                      => /\ svc'[i] # RUNNING
                         /\ minutes_left > HARD_STOP_MINUTES
                         /\ Drift' = 0 => minutes_left' = HARD_STOP_MINUTES]_vars

\* 51st iteration, 60 seconds apart: 5 minutes left
C16_Witness ==
  /\ AfterTick
  /\ Drift = 0
  /\ ticks = 51
  /\ minutes_left = 5
  /\ Occupied(events, 1)
  /\ StoppedIn(events, 1)

(***************************************************************************)
(* C17.  With more than 5 minutes left, a service that reports players is  *)
(* sent one message in an iteration if minutes_left is a multiple of 5 and *)
(* none otherwise, and the text is the template with every {time} replaced *)
(* by the minutes_left of that iteration.  When no iteration has taken     *)
(* longer than the sleep, the k-th iteration has minutes_left = 56 - k, so *)
(* each of 55, 50, ..., 10 is the minutes_left of exactly one iteration.   *)
(***************************************************************************)
Substituted(template, n) ==
  [k \in 1..Len(template) |->
     IF template[k] = "{time}" THEN ToString(n) ELSE template[k]]

C17_Warnings ==
  AfterTick
    => /\ \A i \in Services :
            (Occupied(events, i) /\ minutes_left > 5)
              => MessagesTo(events, i) =
                   (IF minutes_left % 5 = 0
                    THEN << Substituted(msg, minutes_left) >>
                    ELSE << >>)
       /\ Drift = 0 => minutes_left = 56 - ticks

\* 46th iteration, 60 seconds apart: the warning for 10 minutes
C17_Witness ==
  /\ AfterTick
  /\ Drift = 0
  /\ ticks = 46
  /\ action = "restart"
  /\ Occupied(events, 2)
  /\ MessagesTo(events, 2) =
       << << "Server will ", "restart", " in ", "10",
             " minutes. Please prepare to log off safely." >> >>

(***************************************************************************)
(* C18.  At the end of an iteration the loop ends if no service is Running *)
(* any more or minutes_left <= 0; so after the iteration that stops the    *)
(* last Running service there is no further sleep.                         *)
(***************************************************************************)
C18_LoopEndsWhenNoneRunning ==
  AfterTick
    => (((\A i \in Services : svc[i] # RUNNING) \/ minutes_left <= 0)
          => pc = "update")

(***************************************************************************)
(* C19.  When a Restart action is over, start() has been called exactly    *)
(* once on every service that was seen Running during the drain and not    *)
(* at all on the others.                                                   *)
(***************************************************************************)
C19_RestartRestoration ==
  (pc \in {"returned", "raised"} /\ action = "restart")
    => \A i \in Services :
         calls.start[i] = (IF InSeq(i, services_running) THEN 1 ELSE 0)

(***************************************************************************)
(* C20.  update() is called at most once, and only for an Update action;   *)
(* when it is called the loop has ended, no service of the snapshot is     *)
(* Running and no start() has been made yet; once an Update action is past *)
(* that step it has been called exactly once; start() is called only in    *)
(* the restoration step.                                                   *)
(***************************************************************************)
C20_UpdateOnceAfterDrain ==
  /\ calls.update <= 1
  /\ calls.update = 1
       => (action = "update" /\ pc \in {"restore", "returned", "raised"})
  /\ (action = "update" /\ pc \in {"restore", "returned", "raised"})
       => calls.update = 1
  /\ pc = "update"
       => \A i \in Services : svc[i] # RUNNING /\ calls.start[i] = 0
  /\ pc \notin {"returned", "raised"}
       => \A i \in Services : calls.start[i] = 0

\* the update has just been made, after two services were drained
C20_Witness ==
  /\ pc = "restore"
  /\ action = "update"
  /\ events = << << "update" >> >>
  /\ calls.update = 1
  /\ services_running = << 1, 2 >>
  /\ svc = << STOPPED, STOPPED >>

(***************************************************************************)
(* C21  Called with an action other than stop, restart or update, the      *)
(* scheduler reports the invalid action and does not run: it prints the    *)
(* error on standard error and returns at once, raising nothing; no        *)
(* service is asked whether it runs, polled, messaged, stopped or started, *)
(* update() is not called and no later step of the run is taken.           *)
(***************************************************************************)
ServiceCalls ==
  {"is_running", "get_player_count", "send_message", "stop", "start",
   "update"}

NoServiceCall(ev) == \A k \in 1..Len(ev) : ev[k][1] \notin ServiceCalls

C21_InvalidActionDoesNotRun ==
  [][/\ pc # "invalid"
     /\ (pc = "idle" /\ action' \notin Actions)
          => /\ pc' = "invalid"
             /\ events' = << << "stderr", << InvalidActionText, action' >> >> >>
             /\ svc' = svc
             /\ calls' = NoCalls
             /\ ticks' = 0
             /\ services_running' = << >>]_vars

C21_Witness ==
  /\ pc = "invalid"
  /\ action = "status"
  /\ \E i \in Services : svc[i] = RUNNING
  /\ calls = NoCalls

\* C21 as the specification words it: the call fails with an exception (a
\* run an exception ends is at "raised"), and nothing has been done
C21_InvalidActionRaises ==
  (pc # "idle" /\ action \notin Actions)
    => pc = "raised" /\ NoServiceCall(events) /\ calls = NoCalls

(***************************************************************************)
(* C22  A transport error in the poll of a service's player count does not *)
(* end the run: the scheduler is handed None, treats the service as having *)
(* no players (stops it in the same iteration, without a message), goes on *)
(* to examine and poll the services after it, and the run continues with   *)
(* the sleep or with the update step; the only exception that ends a run   *)
(* comes from a start() in the restoration.                                *)
(***************************************************************************)
PollFailed(ev, i) ==
  \E k \in 1..Len(ev) : ev[k][1] = "transport_error" /\ ev[k][2] = i

Examined(ev, i) ==
  \E k \in 1..Len(ev) : ev[k][1] = "is_running" /\ ev[k][2] = i

FoundRunning(ev, i) ==
  \E k \in 1..Len(ev) :
    ev[k][1] = "is_running" /\ ev[k][2] = i /\ ev[k][3]

MaxTicks == DEADLINE_MINUTES + 1

Over == pc \in {"returned", "raised"}

\* what a run that is over has done after its loop
AfterLoopDone ==
  /\ calls.update = (IF action = "update" THEN 1 ELSE 0)
  /\ (pc = "returned" /\ action # "stop")
       => \A i \in Services :
            InSeq(i, services_running) => calls.start[i] = 1
  /\ pc = "raised" => \E i \in Services : calls.start[i] = 1

C23_RunsToCompletion ==
  /\ [](pc \in Running => ENABLED DrainNext)
  /\ [](AfterTick /\ minutes_left <= 0 => pc = "update")
  /\ [](ticks <= MaxTicks)
  /\ [](Over => AfterLoopDone)
  /\ (pc = "loop") ~> Over

C23_Witness ==
  /\ pc = "returned"
  /\ action = "update"
  /\ ticks = MaxTicks
  /\ minutes_left = 0
  /\ stuck # {}
  /\ calls.update = 1
  /\ \E i \in stuck : calls.start[i] = 1

(***************************************************************************)
(* C24  execute_with_retry never raises: it makes at most 6 attempts, each *)
(* on a connection opened for it, logs the exception of every failed       *)
(* attempt, returns the response of the first attempt that succeeds        *)
(* without attempting again, and returns null when the 6th attempt has     *)
(* failed.                                                                 *)
(***************************************************************************)
C24_BestEffortNeverRaises ==
  retry.pc # "idle"
    => /\ retry.exc = NoExc
       /\ retry.pc \in {"attempting", "returned"}
       /\ retry.attempts <= MAX_ATTEMPTS
       /\ retry.conns = retry.attempts
       /\ retry.pc = "attempting"
            => /\ retry.attempts < MAX_ATTEMPTS
               /\ Len(retry.log) = retry.attempts
       /\ (retry.pc = "returned" /\ retry.result = Response)
            => Len(retry.log) = retry.attempts - 1
       /\ (retry.pc = "returned" /\ retry.result = Null /\ CanAttempt(retry))
            => /\ retry.attempts = MAX_ATTEMPTS
               /\ Len(retry.log) = MAX_ATTEMPTS
       /\ retry.pc = "returned" => retry.result \in {Null, Response}

C24_Witness ==
  /\ retry.pc = "returned"
  /\ retry.result = Null
  /\ retry.attempts = MAX_ATTEMPTS
  /\ retry.conns = MAX_ATTEMPTS
  /\ retry.log[MAX_ATTEMPTS] = OSError
  /\ retry.exc = NoExc

(***************************************************************************)
(* C25  When the service instance is not Starting, Running or Stopping, or *)
(* the transport is not enabled or lacks its port or its password,         *)
(* execute_with_retry returns null at once: no attempt is made and no      *)
(* connection is opened.                                                   *)
(***************************************************************************)
Unfit(r) ==
  \/ r.state \notin {Starting, RUNNING, Stopping}
  \/ ~r.enabled
  \/ ~r.port_known
  \/ ~r.password_known

C25_NoAttemptUnlessFit ==
  (retry.pc # "idle" /\ Unfit(retry))
    => /\ retry.pc = "returned"
       /\ retry.result = Null
       /\ retry.exc = NoExc
       /\ retry.attempts = 0
       /\ retry.conns = 0
       /\ retry.log = << >>

C25_Witness ==
  /\ retry.pc = "returned"
  /\ retry.state = ERROR
  /\ retry.enabled /\ retry.port_known /\ retry.password_known
  /\ retry.result = Null
  /\ retry.conns = 0

(***************************************************************************)
(* C26  _api_cmd on a socket path that exists opens the path for writing,  *)
(* writes the command followed by one newline, closes it and returns True: *)
(* it reads nothing, and the path has received exactly that write; if the  *)
(* open fails the OSError reaches the caller and nothing is written.  On a *)
(* path that does not exist (or with no path set) it opens nothing, writes *)
(* nothing, raises nothing and returns None.                               *)
(***************************************************************************)
WritesNothing(log) ==
  \A k \in 1..Len(log) : log[k][1] \notin {"open", "write", "read"}

C26_ApiCmd ==
  [][api'.last.op = "_api_cmd"
     => LET call == api'.last
            line == Append(call.cmd, NEWLINE)
        IN  IF api.exists /\ api.socket = SocketPath
            THEN \/ /\ call.exc = NoExc
                    /\ call.ret = PyTrue
                    /\ call.log = << << "exists" >>, << "open", "w" >>,
                                     << "write", line >>, << "close" >> >>
                    /\ api'.delivered = Append(api.delivered, line)
                 \/ /\ call.exc = OSError
                    /\ call.log = << << "exists" >>, << "open", "w" >> >>
                    /\ api'.delivered = api.delivered
            ELSE /\ call.exc = NoExc
                 /\ call.ret = PyNone
                 /\ WritesNothing(call.log)
                 /\ api'.delivered = api.delivered
                 /\ api'.exists = api.exists]_vars

C26_Witness ==
  /\ api.pc = "ready"
  /\ api.last.op = "_api_cmd"
  /\ api.last.existed
  /\ api.last.ret = PyTrue
  /\ api.delivered = << << NEWLINE >>, << 97, NEWLINE >> >>

(***************************************************************************)
(* C27  A start() that gets as far as authenticating sends one packet, of  *)
(* type AUTH with the password as its body, and then reads packets: never  *)
(* more than two, and two unless a read fails.  Once both are read the     *)
(* outcome is decided by the request id of the second alone: -1 gives the  *)
(* authentication error and anything else success, whatever the first      *)
(* packet carried, the id -1 included.                                     *)
(***************************************************************************)
\* the packet type and the body bytes of a frame that was sent
SentType(frame) == Unpack32(SubSeq(frame, 9, 12))
SentBody(frame) == SubSeq(frame, 13, Len(frame) - 2)

Sends(log) == SelectSeq(log, IsSend)

\* every send of the log comes before every read
SendsFirst(log) ==
  \A i, j \in 1..Len(log) : (IsRecv(log[i]) /\ IsSend(log[j])) => j < i

C27_SecondPacketDecides ==
  (last.op \in {"start", "restart"} /\ Sends(last.log) # << >>)
    => /\ Len(Sends(last.log)) = 1
       /\ SentType(Sends(last.log)[1][3]) = PACKET_TYPE_AUTH
       /\ SentBody(Sends(last.log)[1][3]) = Utf8Encode(Password)
       /\ SendsFirst(last.log)
       /\ Len(RecvIds(last.log)) <= 2
       /\ Len(RecvIds(last.log)) = 2 <=> last.exc \in {NoExc, AuthFailed}
       /\ Len(RecvIds(last.log)) = 2
            => /\ last.exc = AuthFailed
                    <=> RecvIds(last.log)[2] = AUTH_FAILURE_ID
               /\ last.exc = NoExc <=> status = RUNNING

\* the first packet carries -1, the second the id sent: the start succeeds
\* and two more bytes wait unread
C27_Witness ==
  /\ last.op = "start"
  /\ SentIds(last.log) = << 1 >>
  /\ RecvIds(last.log) = << AUTH_FAILURE_ID, 1 >>
  /\ last.exc = NoExc
  /\ status = RUNNING
  /\ rx # << >>

(***************************************************************************)
(* C28  However recv cuts the stream into chunks, _recv_exactly hands back *)
(* exactly the next N bytes of it, in order and never more: the length     *)
(* field is the first 4 bytes and the data the bytes after them.  It       *)
(* raises the connection-closed error exactly when a recv returns b"",     *)
(* which happens only while fewer than N bytes have been obtained.  So     *)
(* what _recv_packet returns or raises is fixed by the stream and by       *)
(* whether the server closes it, not by the chunks.                        *)
(***************************************************************************)
\* the bytes recv has handed out so far
Taken(r) == SubSeq(r.given, 1, Len(r.given) - Len(r.rest))

ZeroRead(r) == r.reads # << >> /\ r.reads[Len(r.reads)] = 0

\* the length field of a stream of at least 4 bytes
GivenSize(r) == Unpack32(SubSeq(r.given, 1, 4))

\* how the read of a stream must end, whatever the chunks
ExpectedExc(r) ==
  LET Short == IF r.closed THEN ConnClosed ELSE OSError
  IN  IF Len(r.given) < 4 THEN Short
      ELSE IF GivenSize(r) <= 0 THEN StructError
      ELSE IF Len(r.given) < 4 + GivenSize(r) THEN Short
      ELSE IF GivenSize(r) < 8 THEN StructError
      ELSE NoExc

C28_FramingRead ==
  /\ reader.header \o reader.buf = Taken(reader)
  /\ reader.rest
       = SubSeq(reader.given, Len(Taken(reader)) + 1, Len(reader.given))
  /\ reader.pc \in {"header", "data"} => Len(reader.buf) < reader.want
  /\ reader.header # << >> => reader.header = SubSeq(reader.given, 1, 4)
  /\ reader.exc = ConnClosed <=> ZeroRead(reader)
  /\ ZeroRead(reader)
       => /\ Len(reader.buf) < reader.want
          /\ reader.closed
          /\ reader.rest = << >>
  /\ reader.pc \in {"returned", "raised"}
       => reader.exc = ExpectedExc(reader)
  /\ reader.pc = "returned"
       => /\ Len(reader.buf) = GivenSize(reader)
          /\ reader.buf = SubSeq(reader.given, 5, 4 + GivenSize(reader))
          /\ reader.pkt = DecodeData(reader.buf)

\* the 11 data bytes of the first frame arrive as 2, 5, 1 and 3 bytes, and
\* the second frame is not touched
C28_Witness ==
  /\ reader.pc = "returned"
  /\ reader.given = TwoFrames
  /\ reader.reads = << 2, 5, 1, 3 >>
  /\ reader.pkt = << 1, PACKET_TYPE_RESPONSE, << 97 >> >>
  /\ reader.rest = Encode(2, PACKET_TYPE_AUTH_RESPONSE, << >>)

(***************************************************************************)
(* C29  An execute() on a connected instance sends at most one packet (one *)
(* unless sendall fails), of type EXEC, and then reads at most one frame.  *)
(* When a whole frame is already waiting unread on the connection, left    *)
(* over from an earlier answer, that frame is the one it reads: its id is  *)
(* compared with the id sent and its body is what a successful call        *)
(* returns, and every byte that was waiting behind it is still waiting     *)
(* afterwards, in front of what the server sent in answer.                 *)
(***************************************************************************)
\* the length of the first frame of b, its length field included
FirstFrameLen(b) == 4 + Unpack32(SubSeq(b, 1, 4))

\* b begins with a whole frame that holds an id and a type
BeginsWithFrame(b) ==
  /\ Len(b) >= 4
  /\ Unpack32(SubSeq(b, 1, 4)) >= 10
  /\ Len(b) >= FirstFrameLen(b)

FirstFrame(b) == DecodeData(SubSeq(b, 5, FirstFrameLen(b)))

C29_OneFramePerExecute ==
  [][(last'.op = "execute" /\ status = RUNNING /\ socket # 0)
     => /\ Len(Sends(last'.log)) <= 1
        /\ Sends(last'.log) = << >>
             => last'.exc = OSError /\ RecvIds(last'.log) = << >> /\ rx' = rx
        /\ Len(RecvIds(last'.log)) <= 1
        /\ Sends(last'.log) # << >>
             => /\ SentType(Sends(last'.log)[1][3]) = PACKET_TYPE_EXEC
                /\ SentIds(last'.log) = << request_id' >>
                /\ SendsFirst(last'.log)
        /\ (Sends(last'.log) # << >> /\ BeginsWithFrame(rx))
             => /\ RecvIds(last'.log) = << FirstFrame(rx)[1] >>
                /\ last'.exc \in {NoExc, IdMismatch}
                /\ last'.exc = NoExc
                     => last'.ret = << FirstFrame(rx)[3] >>
                /\ Len(rx') >= Len(rx) - FirstFrameLen(rx)
                /\ SubSeq(rx', 1, Len(rx) - FirstFrameLen(rx))
                     = SubSeq(rx, FirstFrameLen(rx) + 1, Len(rx))]_vars

\* the third packet of the instance, an EXEC with id 3, is answered by a
\* frame with id 2 that an earlier answer left unread
C29_Witness ==
  /\ last.op = "execute"
  /\ last.from = RUNNING
  /\ SentIds(last.log) = << 3 >>
  /\ RecvIds(last.log) = << 2 >>
  /\ last.exc = IdMismatch
  /\ rx # << >>

(***************************************************************************)
(* C30  An instance in Error stays in Error through every call that is not *)
(* start(), stop() or restart(): execute() and is_running() leave the      *)
(* status alone.  A start() made in Error that returns leaves the instance *)
(* Running, and one that raises, whatever it raises, leaves it in Error;   *)
(* stop() leaves it Stopped.                                               *)
(***************************************************************************)
C30_ErrorUntilStartOrStop ==
  [][status = ERROR
     => /\ last'.op \in {"execute", "is_running"} => status' = ERROR
        /\ last'.op = "start"
             => IF last'.exc = NoExc THEN status' = RUNNING
                ELSE status' = ERROR
        /\ last'.op = "stop" => status' = STOPPED]_vars

\* a start() made in Error has succeeded
C30_Witness ==
  /\ last.op = "start"
  /\ last.from = ERROR
  /\ last.exc = NoExc
  /\ status = RUNNING

(***************************************************************************)
(* C31  What an iteration of the drain loop does, it does to one service   *)
(* after another in the order of the snapshot: is_running() is asked of    *)
(* every service once, in that order, everything done to a service comes   *)
(* after its is_running() and before the is_running() of the next one, and *)
(* a service is stopped or sent a message only after its own poll.         *)
(***************************************************************************)
\* the services the is_running() calls of an iteration were made on
Examinations(ev) ==
  LET Of(sel) == [k \in 1..Len(sel) |-> sel[k][2]]
  IN  Of(SelectSeq(ev, LAMBDA e : e[1] = "is_running"))

PollBefore(ev, k) ==
  \E j \in 1..(k - 1) :
    ev[j][1] = "get_player_count" /\ ev[j][2] = ev[k][2]

C31_OneServiceAtATime ==
  AfterTick
    => /\ Examinations(events) = [i \in Services |-> i]
       /\ \A k \in 1..Len(events) :
            /\ k > 1 => events[k - 1][2] <= events[k][2]
            /\ (k > 1 /\ events[k][1] = "is_running")
                 => events[k - 1][2] < events[k][2]
            /\ events[k][1] \in {"stop", "send_message"}
                 => PollBefore(events, k)
            /\ events[k][1] = "get_player_count"
                 => /\ ~PollBefore(events, k)
                    /\ k > 1
                    /\ events[k - 1][2] = events[k][2]

\* first iteration: the first service is found empty and stopped, then the
\* second is found occupied and warned
C31_Witness ==
  /\ AfterTick
  /\ ticks = 1
  /\ Len(events) >= 6
  /\ [k \in 1..6 |-> << events[k][1], events[k][2] >>]
       = << << "is_running", 1 >>, << "get_player_count", 1 >>,
            << "stop", 1 >>, << "is_running", 2 >>,
            << "get_player_count", 2 >>, << "send_message", 2 >> >>

(***************************************************************************)
(* C32  In a run for the action stop no start() is called on any service:  *)
(* a service that is not Running, or no longer Running, stays so through   *)
(* every step of the run, the run returns, and when it has returned every  *)
(* service that was found Running during the drain is not Running.         *)
(***************************************************************************)
StartedIn(ev) == \E k \in 1..Len(ev) : ev[k][1] = "start"

StopLeavesDown ==
  action = "stop"
    => /\ pc # "raised"
       /\ pc = "returned"
            => \A i \in Services :
                 InSeq(i, services_running) => svc[i] # RUNNING

C32_StopNeverStarts ==
  /\ []StopLeavesDown
  /\ [][action' = "stop"
          => /\ ~StartedIn(events')
             /\ calls'.start = calls.start
             /\ \A i \in Services :
                  svc[i] # RUNNING => svc'[i] # RUNNING]_vars

\* a stop that has returned after the hard stop of two occupied services
C32_Witness ==
  /\ pc = "returned"
  /\ action = "stop"
  /\ minutes_left = HARD_STOP_MINUTES
  /\ services_running = [i \in Services |-> i]
  /\ \A i \in Services : svc[i] = STOPPED /\ calls.start[i] = 0

(***************************************************************************)
(* C33  After every completed start(), stop(), restart() or execute(),     *)
(* whether it returned or raised, the instance holds an open socket if and *)
(* only if its status is Running.                                          *)
(***************************************************************************)
HoldsOpenSocket == socket # 0 /\ socket \notin closed

C33_OpenSocketIffRunning ==
  last.op \in {"start", "stop", "restart", "execute"}
    => (HoldsOpenSocket <=> status = RUNNING)

(***************************************************************************)
(* C34  In one iteration a service is stopped at most once and sent at     *)
(* most one message, and never both; either is done only to a service      *)
(* whose is_running() was true in that iteration, and a message is sent    *)
(* only to a service whose poll in that iteration gave a count that is     *)
(* neither 0 nor None.                                                     *)
(***************************************************************************)
StopsOf(ev, i) ==
  Len(SelectSeq(ev, LAMBDA e : e[1] = "stop" /\ e[2] = i))

C34_StopOrBroadcast ==
  AfterTick
    => \A i \in Services :
         /\ StopsOf(events, i) + Len(MessagesTo(events, i)) <= 1
         /\ StopsOf(events, i) + Len(MessagesTo(events, i)) = 1
              => FoundRunning(events, i)
         /\ MessagesTo(events, i) # << >>
              => /\ Occupied(events, i)
                 /\ ~Empty(events, i)

\* the iteration with 10 minutes left: the first service has players and
\* is warned, the second has none and is stopped
C34_Witness ==
  /\ AfterTick
  /\ minutes_left = 2 * WARNING_INTERVAL
  /\ Len(MessagesTo(events, 1)) = 1
  /\ StopsOf(events, 1) = 0
  /\ PolledAs(events, 2, 0)
  /\ StopsOf(events, 2) = 1
  /\ MessagesTo(events, 2) = << >>

(***************************************************************************)
(* C35  Called for stop, restart or update by a process whose effective    *)
(* user id is not 0, the scheduler prints the line about sudo on standard  *)
(* error and returns: no service is asked whether it runs, polled,         *)
(* messaged, stopped or started, update() is not called, and no later step *)
(* of the run is taken.                                                    *)
(***************************************************************************)
C35_DeniedDoesNothing ==
  [][/\ pc # "denied"
     /\ (pc = "idle" /\ events' = << << "stderr", DeniedText(action') >> >>)
          => /\ pc' = "denied"
             /\ action' \in Actions
             /\ svc' = svc
             /\ calls' = NoCalls
             /\ ticks' = 0
             /\ services_running' = << >>]_vars

C35_Witness ==
  /\ pc = "denied"
  /\ action = "update"
  /\ events = << << "stderr", DeniedText("update") >> >>
  /\ \A i \in Services : svc[i] = RUNNING
  /\ calls = NoCalls

(***************************************************************************)
(* C36  A service that was not Running in the first iteration and is found *)
(* Running in a later one, because another actor has started it, is        *)
(* recorded in services_running in that iteration and drained like the     *)
(* others (stopped at once when empty, left alone while occupied with more *)
(* than 5 minutes left, stopped when occupied with 5 or fewer), and when a *)
(* restart or an update is over start() has been called on it once.        *)
(***************************************************************************)
DrainedByTheRules(i) ==
  (AfterTick /\ FoundRunning(events, i))
    => /\ ticks > 1
       /\ InSeq(i, services_running)
       /\ Empty(events, i) => StoppedIn(events, i)
       /\ Occupied(events, i)
            => (StoppedIn(events, i) <=> minutes_left <= HARD_STOP_MINUTES)

StartedAgain(i) ==
  (pc \in {"returned", "raised"} /\ action \in {"restart", "update"}
     /\ InSeq(i, services_running))
    => calls.start[i] = 1

C36_LateServiceIsRestored ==
  \A i \in LateServices : DrainedByTheRules(i) /\ StartedAgain(i)

(***************************************************************************)
(* C37  When a start() of the restoration raises, the run ends in that     *)
(* exception: it happens only for restart and update, the services before  *)
(* the failing one that were recorded as running have been started, and no *)
(* service after it has been started, recorded as running or not.          *)
(***************************************************************************)
\* service i is the one whose start() raised
FailedStart(i) ==
  /\ InSeq(i, services_running)
  /\ calls.start[i] = 1
  /\ svc[i] = ERROR
  /\ \A j \in Services :
       /\ j < i => calls.start[j] = (IF InSeq(j, services_running)
                                     THEN 1 ELSE 0)
       /\ (j < i /\ InSeq(j, services_running)) => svc[j] = RUNNING
       /\ j > i => calls.start[j] = 0 /\ svc[j] # RUNNING

RaisedInRestoration ==
  pc = "raised"
    => /\ action \in {"restart", "update"}
       /\ \E i \in Services : FailedStart(i)

C37_FailedStartEndsRestoration ==
  /\ []RaisedInRestoration
  /\ [][(pc = "restore" /\ \E i \in Services : svc'[i] = ERROR)
          => pc' = "raised"]_vars

\* the start() of the first service raised; the second, recorded as
\* running, was left stopped
C37_Witness ==
  /\ pc = "raised"
  /\ action = "restart"
  /\ services_running = << 1, 2 >>
  /\ FailedStart(1)
  /\ svc[2] = STOPPED

(***************************************************************************)
(* C38  stop_all() and restart_all() act on a service only if it is        *)
(* Running when they come to it: a service that is not Running then is     *)
(* neither stopped nor started and is left in the state it was in, so      *)
(* restart_all() never brings up a service that was down.  stop_all()      *)
(* calls stop() on every service that is Running and start() on none;      *)
(* restart_all() restarts the Running ones in order, up to the first whose *)
(* start() raises.                                                         *)
(***************************************************************************)
ActedOn(ev, i) ==
  \E k \in 1..Len(ev) : ev[k][1] \in {"stop", "start"} /\ ev[k][2] = i

C38_ImmediateActsOnRunningOnly ==
  [][action' \in ImmediateActions
       => \A i \in Services :
            /\ svc[i] # RUNNING
                 => /\ ~ActedOn(events', i)
                    /\ calls'.start[i] = 0
                    /\ svc'[i] = svc[i]
            /\ ActedOn(events', i) => FoundRunning(events', i)
            /\ (svc[i] = RUNNING /\ action' = "stop_all")
                 => /\ StoppedIn(events', i)
                    /\ calls'.start[i] = 0
                    /\ i \notin stuck => svc'[i] = STOPPED
            /\ (svc[i] = RUNNING /\ action' = "restart_all"
                  /\ pc' = "returned")
                 => /\ StoppedIn(events', i)
                    /\ calls'.start[i] = 1
                    /\ svc'[i] = RUNNING]_vars

\* restart_all() has returned: the first service, which was down, is
\* still down; the second was restarted
C38_Witness ==
  /\ action = "restart_all"
  /\ pc = "returned"
  /\ svc[1] = STOPPED
  /\ ~ActedOn(events, 1)
  /\ svc[2] = RUNNING
  /\ calls.start[2] = 1
  /\ StoppedIn(events, 2)

(***************************************************************************)
(* C39 as stated.  stop() leaves the request id counter unchanged, every   *)
(* start() advances it by exactly one, and the first execute() after the   *)
(* first successful start() of an instance sends id 2.  (The first         *)
(* successful start() is recognised in the state when its socket is the    *)
(* first the instance opened, or the second after a start() that failed.)  *)
(***************************************************************************)
\* the id after id
Succ(id) == IF id = MAX_ID THEN 1 ELSE id + 1

\* the instance was made with its counter at 0
CountsFromZero == request_id = nAlloc

FirstSuccessfulStart ==
  /\ last.op = "start"
  /\ last.exc = NoExc
  /\ CountsFromZero
  /\ opened = 1 \/ (opened = 2 /\ last.from = ERROR)

Authenticates(log) == HasEvent(log, "connect")

====
